---------------------------- MODULE Spec2Model ----------------------------
(***************************************************************************)
(* Model of the JSON accuracy engine of ocr_benchmark                      *)
(* (src/ocr_benchmark/evaluation/json.py): calculate_json_accuracy and the *)
(* functions it calls, _diff_json, count_changes, count_total_fields and   *)
(* convert_strings_to_uppercase.                                           *)
(*                                                                         *)
(* A JSON value is a record [k |-> kind, v |-> payload]:                   *)
(*   kind "null" (payload 0), "bool" (a BOOLEAN), "num" (an integer),      *)
(*   "str" (the sequence of the string's code points), "list" (a sequence  *)
(*   of JSON values) and "dict" (a function from keys to JSON values, a    *)
(*   key being the sequence of its code points).                           *)
(* Strings are sequences of code points so that str.upper, str.endswith,   *)
(* the "in" test on a key and the order of sorted() are computed, not      *)
(* assumed.  Diffs are JSON values too, as they are Python dicts and lists *)
(* in the code.                                                            *)
(***************************************************************************)
EXTENDS Integers, Sequences, FiniteSets, TLC

VARIABLES
    actual,               \* argument actual
    predicted,            \* argument predicted
    ignore_cases,         \* argument ignore_cases
    pc,                   \* position in calculate_json_accuracy
    processed_actual,     \* local processed_actual
    processed_predicted,  \* local processed_predicted
    full_diff,            \* local full_diff
    diff_result,          \* local diff_result
    total_fields,         \* local total_fields
    result,               \* the returned AccuracyResult
    name,                 \* argument name of get_model_provider
    provider,             \* what get_model_provider returns or raises
    MODELS,               \* the model configurations of the run
    data,                 \* run_benchmark: the loaded data items
    clients,              \* which vendor clients the environment configures
    sem,                  \* process_with_model: sem of each configuration
    providers,            \* provider_ocr and provider_extraction of each
    tasks,                \* the process_item task of each (m, item)
    progress_bars,        \* run_benchmark: progress_bars
    results,              \* run_benchmark: results
    gathered,             \* the configurations whose gather has returned
    written,              \* what write_to_file has written to results.json
    run                   \* position in run_benchmark

\* the variables of a provider lookup, which no step of
\* calculate_json_accuracy reads or writes
lookup_vars == <<name, provider>>

\* the variables of a benchmark run
bench_vars == <<MODELS, data, clients, sem, providers, tasks, progress_bars,
                results, gathered, written, run>>

vars == <<actual, predicted, ignore_cases, pc, processed_actual,
          processed_predicted, full_diff, diff_result, total_fields, result,
          name, provider, MODELS, data, clients, sem, providers, tasks,
          progress_bars, results, gathered, written, run>>

---------------------------------------------------------------------------
(* JSON values *)

JNull == [k |-> "null", v |-> 0]
JBool(b) == [k |-> "bool", v |-> b]
JNum(n) == [k |-> "num", v |-> n]
JStr(s) == [k |-> "str", v |-> s]
JList(s) == [k |-> "list", v |-> s]
JDict(f) == [k |-> "dict", v |-> f]

EmptyFcn == [x \in {} |-> JNull]
EmptyDict == JDict(EmptyFcn)
EmptyList == JList(<<>>)

\* f with key mapped to val, as the assignment result[key] = val
Put(f, key, val) ==
    [x \in (DOMAIN f) \cup {key} |-> IF x = key THEN val ELSE f[x]]

\* isinstance(x, dict), isinstance(x, list), isinstance(x, (dict, list))
IsDict(x) == x.k = "dict"
IsList(x) == x.k = "list"
IsContainer(x) == x.k \in {"dict", "list"}

\* bool is a subclass of int in Python: True == 1 and False == 0
NumOf(x) == IF x.k = "bool" THEN (IF x.v THEN 1 ELSE 0) ELSE x.v

\* Truthy with the test "x is not None" in place of the truth value
TruthyNotNone(x) ==
    CASE x.k = "null" -> FALSE
      [] x.k = "bool" -> x.v
      [] x.k = "num" -> x.v # 0
      [] x.k \in {"str", "list", "dict"} -> TRUE

\* Truthy taking every value as true
TruthyAlways(x) == TRUE

\* Python's truth value of x: bool(x)
Truthy(x) ==
    CASE x.k = "null" -> FALSE
      [] x.k = "bool" -> x.v
      [] x.k = "num" -> x.v # 0
      [] x.k = "str" -> Len(x.v) > 0
      [] x.k = "list" -> Len(x.v) > 0
      [] x.k = "dict" -> DOMAIN x.v # {}

\* Python's a == b on JSON values
RECURSIVE PyEq(_, _)
PyEq(a, b) ==
    CASE a.k \in {"bool", "num"} /\ b.k \in {"bool", "num"} -> NumOf(a) = NumOf(b)
      [] a.k # b.k -> FALSE
      [] a.k = "null" -> TRUE
      [] a.k = "str" -> a.v = b.v
      [] a.k = "list" ->
            /\ Len(a.v) = Len(b.v)
            /\ \A i \in 1..Len(a.v) : PyEq(a.v[i], b.v[i])
      [] a.k = "dict" ->
            /\ DOMAIN a.v = DOMAIN b.v
            /\ \A key \in DOMAIN a.v : PyEq(a.v[key], b.v[key])

---------------------------------------------------------------------------
(* Strings: sequences of code points *)

S_old == <<95, 95, 111, 108, 100>>                          \* "__old"
S_new == <<95, 95, 110, 101, 119>>                          \* "__new"
S_op2 == <<95, 95, 111, 112>>                               \* "__op"
S_diff == <<100, 105, 102, 102>>                            \* "diff"
S_op == <<111, 112>>                                        \* "op"
S_value == <<118, 97, 108, 117, 101>>                       \* "value"
S_deleted == <<95, 95, 100, 101, 108, 101, 116, 101, 100>>  \* "__deleted"
S_added == <<95, 95, 97, 100, 100, 101, 100>>               \* "__added"
S_marker == <<95, 95>>                                      \* "__"
S_plus == <<43>>                                            \* "+"
S_minus == <<45>>                                           \* "-"
S_tilde == <<126>>                                          \* "~"

\* str.upper on the ASCII letters
Upper(s) == [i \in 1..Len(s) |-> IF s[i] \in 97..122 THEN s[i] - 32 ELSE s[i]]

\* key.endswith(suffix)
EndsWith(key, suffix) ==
    /\ Len(key) >= Len(suffix)
    /\ SubSeq(key, Len(key) - Len(suffix) + 1, Len(key)) = suffix

\* Contains testing the start of key only, as key.startswith(sub)
ContainsAtStart(key, sub) ==
    Len(key) >= Len(sub) /\ SubSeq(key, 1, Len(sub)) = sub

\* sub in key
Contains(key, sub) ==
    \E i \in 1..(Len(key) - Len(sub) + 1) : SubSeq(key, i, i + Len(sub) - 1) = sub

\* s < t in Python's order on str (by code point, a proper prefix first)
RECURSIVE StrLess(_, _)
StrLess(s, t) ==
    IF t = <<>> THEN FALSE
    ELSE IF s = <<>> THEN TRUE
    ELSE IF s[1] # t[1] THEN s[1] < t[1]
    ELSE StrLess(Tail(s), Tail(t))

\* sorted(keys)
RECURSIVE Sorted(_)
Sorted(keys) ==
    IF keys = {} THEN <<>>
    ELSE LET first == CHOOSE x \in keys : \A y \in keys : x = y \/ StrLess(x, y)
         IN <<first>> \o Sorted(keys \ {first})

---------------------------------------------------------------------------
(* convert_strings_to_uppercase *)

RECURSIVE convert_strings_to_uppercase(_)
convert_strings_to_uppercase(obj) ==
    IF ~IsContainer(obj)
    THEN IF obj.k = "str" THEN JStr(Upper(obj.v)) ELSE obj
    ELSE IF IsList(obj)
    THEN JList([i \in 1..Len(obj.v) |-> convert_strings_to_uppercase(obj.v[i])])
    ELSE JDict([key \in DOMAIN obj.v |->
                  IF obj.v[key].k = "str" THEN JStr(Upper(obj.v[key].v))
                  ELSE IF IsContainer(obj.v[key])
                  THEN convert_strings_to_uppercase(obj.v[key])
                  ELSE obj.v[key]])

---------------------------------------------------------------------------
(* count_total_fields *)

\* isinstance(value, (str, bool, int, float)) or value is None
IsScalarOrNone(value) == value.k \in {"null", "str", "bool", "num"}

RECURSIVE FieldsTraverse(_)
RECURSIVE FieldsOfItems(_, _)
RECURSIVE FieldsOfKeys(_, _)

\* the loops "for item in current" and "for item in value", from item i on
FieldsOfItems(items, i) ==
    IF i > Len(items) THEN 0
    ELSE (IF IsDict(items[i]) THEN FieldsTraverse(items[i]) ELSE 1)
         + FieldsOfItems(items, i + 1)

\* the loop "for key, value in current.items()", over the keys left
FieldsOfKeys(d, keys) ==
    IF keys = {} THEN 0
    ELSE LET key == CHOOSE x \in keys : TRUE
             value == d[key]
             here == IF Contains(key, S_marker) THEN 0
                     ELSE IF IsScalarOrNone(value) THEN 1
                     ELSE IF IsList(value) THEN FieldsOfItems(value.v, 1)
                     ELSE IF IsDict(value) THEN FieldsTraverse(value)
                     ELSE 0
         IN here + FieldsOfKeys(d, keys \ {key})

\* the inner function traverse of count_total_fields, as what it adds to count
FieldsTraverse(current) ==
    IF ~IsContainer(current) THEN 0
    ELSE IF IsList(current) THEN FieldsOfItems(current.v, 1)
    ELSE FieldsOfKeys(current.v, DOMAIN current.v)

count_total_fields(obj) == FieldsTraverse(obj)

---------------------------------------------------------------------------
(* _diff_json *)

\* the modification node {"__old": a, "__new": b}, with "__op": "~" when full
ModBox(a, b, full) ==
    IF full
    THEN JDict(Put(Put(Put(EmptyFcn, S_op2, JStr(S_tilde)), S_old, a), S_new, b))
    ELSE JDict(Put(Put(EmptyFcn, S_old, a), S_new, b))

\* all(isinstance(x, dict) for x in a)
AllDicts(a) == \A i \in 1..Len(a.v) : IsDict(a.v[i])

\* r == {}
IsEmptyDict(r) == IsDict(r) /\ DOMAIN r.v = {}

\* Pop removing the first candidate, as b_copy.pop(0)
PopFirst(s, idx) == SubSeq(s, 2, Len(s))

\* b_copy.pop(idx)
Pop(s, idx) == SubSeq(s, 1, idx - 1) \o SubSeq(s, idx + 1, Len(s))

\* NestChild without the assignment of the full format
NestChildFullLost(res, key, child, full) ==
    IF full THEN res ELSE Put(res, key, child)

\* lines 129-133 and 136-140: a non-empty child diff is recorded under key
NestChild(res, key, child, full) ==
    IF full
    THEN Put(res, key, JDict(Put(Put(EmptyFcn, S_op2, JStr(S_tilde)), S_diff, child)))
    ELSE Put(res, key, child)

\* lines 115-118: key is in a only
KeyDeleted(res, key, value, full) ==
    IF full
    THEN Put(res, key, JDict(Put(Put(EmptyFcn, S_op2, JStr(S_minus)), S_old, value)))
    ELSE Put(res, key \o S_deleted, value)

\* lines 120-123: key is in b only
KeyAdded(res, key, value, full) ==
    IF full
    THEN Put(res, key, JDict(Put(Put(EmptyFcn, S_op2, JStr(S_plus)), S_new, value)))
    ELSE Put(res, key \o S_added, value)

RECURSIVE DiffJson(_, _, _)
RECURSIVE DictLoop(_, _, _, _, _, _)
RECURSIVE GreedyLoop(_, _, _)
RECURSIVE IndexLoop(_, _, _, _, _)

\* the loop "for key in sorted(keys)" of the dict branch, from keys[i] on
DictLoop(a, b, full, keys, i, res) ==
    IF i > Len(keys) THEN res
    ELSE
      LET key == keys[i]
          in_a == key \in DOMAIN a
          in_b == key \in DOMAIN b
          next ==
            IF in_a /\ ~in_b THEN KeyDeleted(res, key, a[key], full)
            ELSE IF in_b /\ ~in_a THEN KeyAdded(res, key, b[key], full)
            ELSE
              LET va == a[key]
                  vb == b[key]
              IN IF (IsDict(va) /\ IsDict(vb)) \/ (IsList(va) /\ IsList(vb))
                 THEN LET child == DiffJson(va, vb, full)
                      IN IF Truthy(child) THEN NestChild(res, key, child, full)
                         ELSE res
                 ELSE IF PyEq(va, vb) THEN res
                 ELSE Put(res, key, ModBox(va, vb, full))
      IN DictLoop(a, b, full, keys, i + 1, next)

\* GreedyLoop trying only the first candidate that is left
RECURSIVE GreedyLoopFirstOnly(_, _, _)
GreedyLoopFirstOnly(a, i, b_copy) ==
    IF i > Len(a) THEN [matched |-> TRUE, b_copy |-> b_copy]
    ELSE IF b_copy = <<>> \/ ~IsEmptyDict(DiffJson(a[i], b_copy[1], FALSE))
    THEN [matched |-> FALSE, b_copy |-> b_copy]
    ELSE GreedyLoopFirstOnly(a, i + 1, Pop(b_copy, 1))

\* the loop "for va in a" of the unordered match, from a[i] on: the final
\* values of matched and b_copy
GreedyLoop(a, i, b_copy) ==
    IF i > Len(a) THEN [matched |-> TRUE, b_copy |-> b_copy]
    ELSE
      LET hits == {idx \in 1..Len(b_copy) :
                      IsEmptyDict(DiffJson(a[i], b_copy[idx], FALSE))}
      IN IF hits = {} THEN [matched |-> FALSE, b_copy |-> b_copy]
         ELSE LET found_idx == CHOOSE idx \in hits : \A j \in hits : idx <= j
              IN GreedyLoop(a, i + 1, Pop(b_copy, found_idx))

\* IndexLoop tagging an index of a only as "+" and an index of b only as "-"
RECURSIVE IndexLoopTagsExchanged(_, _, _, _, _)
IndexLoopTagsExchanged(a, b, full, i, res) ==
    IF i > (IF Len(a) > Len(b) THEN Len(a) ELSE Len(b)) THEN res
    ELSE
      LET in_a == i <= Len(a)
          in_b == i <= Len(b)
          Entry(op, field, value) ==
            IF full
            THEN JDict(Put(Put(EmptyFcn, S_op, JStr(op)), field, value))
            ELSE JList(<<JStr(op), value>>)
          next ==
            IF in_a /\ ~in_b THEN Append(res, Entry(S_plus, S_value, a[i]))
            ELSE IF in_b /\ ~in_a THEN Append(res, Entry(S_minus, S_value, b[i]))
            ELSE
              LET va == a[i]
                  vb == b[i]
              IN IF (IsDict(va) /\ IsDict(vb)) \/ (IsList(va) /\ IsList(vb))
                 THEN LET child == DiffJson(va, vb, full)
                      IN IF Truthy(child)
                         THEN Append(res, Entry(S_tilde, S_diff, child))
                         ELSE res
                 ELSE IF PyEq(va, vb) THEN res
                 ELSE Append(res, Entry(S_tilde, S_value, ModBox(va, vb, FALSE)))
      IN IndexLoopTagsExchanged(a, b, full, i + 1, next)

\* the loop "for i in range(maxl)" of the index-wise comparison (i from 1)
IndexLoop(a, b, full, i, res) ==
    IF i > (IF Len(a) > Len(b) THEN Len(a) ELSE Len(b)) THEN res
    ELSE
      LET in_a == i <= Len(a)
          in_b == i <= Len(b)
          Entry(op, field, value) ==
            IF full
            THEN JDict(Put(Put(EmptyFcn, S_op, JStr(op)), field, value))
            ELSE JList(<<JStr(op), value>>)
          next ==
            IF in_a /\ ~in_b THEN Append(res, Entry(S_minus, S_value, a[i]))
            ELSE IF in_b /\ ~in_a THEN Append(res, Entry(S_plus, S_value, b[i]))
            ELSE
              LET va == a[i]
                  vb == b[i]
              IN IF (IsDict(va) /\ IsDict(vb)) \/ (IsList(va) /\ IsList(vb))
                 THEN LET child == DiffJson(va, vb, full)
                      IN IF Truthy(child)
                         THEN Append(res, Entry(S_tilde, S_diff, child))
                         ELSE res
                 ELSE IF PyEq(va, vb) THEN res
                 ELSE Append(res, Entry(S_tilde, S_value, ModBox(va, vb, FALSE)))
      IN IndexLoop(a, b, full, i + 1, next)

\* _diff_json(a, b, full)
DiffJson(a, b, full) ==
    IF a.k = "null" /\ b.k = "null" THEN EmptyDict
    ELSE IF ~IsContainer(a) /\ ~IsContainer(b)
    THEN IF PyEq(a, b) THEN EmptyDict ELSE ModBox(a, b, full)
    ELSE IF IsDict(a) /\ IsDict(b)
    THEN JDict(DictLoop(a.v, b.v, full, Sorted(DOMAIN a.v \cup DOMAIN b.v), 1,
                        EmptyFcn))
    ELSE IF IsList(a) /\ IsList(b)
    THEN
      LET both_dicts == AllDicts(a) /\ AllDicts(b)
          m == GreedyLoop(a.v, 1, b.v)
      IN IF Len(a.v) = Len(b.v) /\ both_dicts /\ m.matched /\ m.b_copy = <<>>
         THEN EmptyList
         ELSE IF ~both_dicts /\ PyEq(a, b) THEN EmptyList
         ELSE IF ~both_dicts /\ Len(a.v) = Len(b.v) THEN ModBox(a, b, full)
         ELSE JList(IndexLoop(a.v, b.v, full, 1, <<>>))
    ELSE ModBox(a, b, full)

---------------------------------------------------------------------------
(* count_changes *)

NoChanges == [additions |-> 0, deletions |-> 0, modifications |-> 0]

Plus(c, d) == [additions |-> c.additions + d.additions,
               deletions |-> c.deletions + d.deletions,
               modifications |-> c.modifications + d.modifications]

\* Additions putting n into the bucket of the modifications
AdditionsAsModifications(n) == [NoChanges EXCEPT !.modifications = n]

Additions(n) == [NoChanges EXCEPT !.additions = n]
Deletions(n) == [NoChanges EXCEPT !.deletions = n]
Modifications(n) == [NoChanges EXCEPT !.modifications = n]

\* n or 1
OrOne(n) == IF n # 0 THEN n ELSE 1

\* "__old" in obj and "__new" in obj
IsBox(obj) == S_old \in DOMAIN obj.v /\ S_new \in DOMAIN obj.v

\* BoxCount counting every box as one change
BoxCountOne(box) == 1

\* what a modification box adds to changes["modifications"]
BoxCount(box) ==
    LET old == box.v[S_old]
        new == box.v[S_new]
    IN IF old.k = "null" /\ new.k # "null"
       THEN OrOne(count_total_fields(new))
       ELSE OrOne(count_total_fields(old))

RECURSIVE ChangesTraverse(_)
RECURSIVE ChangesOfItems(_, _)
RECURSIVE ChangesOfKeys(_, _)

\* the loop "for item in obj" of a list node, from item i on
ChangesOfItems(items, i) ==
    IF i > Len(items) THEN NoChanges
    ELSE
      LET item == items[i]
          here ==
            IF ~IsList(item) \/ Len(item.v) # 2 THEN NoChanges
            ELSE
              LET op == item.v[1]
                  element == item.v[2]
              IN IF ~IsDict(element)
                 THEN IF PyEq(op, JStr(S_plus)) THEN Additions(1)
                      ELSE IF PyEq(op, JStr(S_minus)) THEN Deletions(1)
                      ELSE IF PyEq(op, JStr(S_tilde)) THEN Modifications(1)
                      ELSE NoChanges
                 ELSE IF PyEq(op, JStr(S_plus))
                      THEN Additions(count_total_fields(element))
                      ELSE IF PyEq(op, JStr(S_minus))
                      THEN Deletions(count_total_fields(element))
                      ELSE IF PyEq(op, JStr(S_tilde)) THEN ChangesTraverse(element)
                      ELSE NoChanges
      IN Plus(here, ChangesOfItems(items, i + 1))

\* the loop "for key, value in obj.items()" of a dict node, over the keys left
ChangesOfKeys(d, keys) ==
    IF keys = {} THEN NoChanges
    ELSE
      LET key == CHOOSE x \in keys : TRUE
          value == d[key]
          here ==
            IF EndsWith(key, S_deleted)
            THEN IF ~IsContainer(value) THEN Deletions(1)
                 ELSE Deletions(count_total_fields(value))
            ELSE IF EndsWith(key, S_added)
            THEN IF ~IsContainer(value) THEN Additions(1)
                 ELSE Additions(count_total_fields(value))
            ELSE IF IsDict(value)
            THEN IF IsBox(value) THEN Modifications(BoxCount(value))
                 ELSE ChangesTraverse(value)
            ELSE IF IsList(value) THEN ChangesTraverse(value)
            ELSE NoChanges
      IN Plus(here, ChangesOfKeys(d, keys \ {key}))

\* the inner function traverse of count_changes, as what it adds to changes
ChangesTraverse(obj) ==
    IF ~Truthy(obj) \/ ~IsContainer(obj) THEN NoChanges
    ELSE IF IsList(obj) THEN ChangesOfItems(obj.v, 1)
    ELSE IF IsBox(obj) THEN Modifications(BoxCount(obj))
    ELSE ChangesOfKeys(obj.v, DOMAIN obj.v)

count_changes(diff) ==
    LET c == ChangesTraverse(diff)
    IN [additions |-> c.additions,
        deletions |-> c.deletions,
        modifications |-> c.modifications,
        total |-> c.additions + c.deletions + c.modifications]

---------------------------------------------------------------------------
(* calculate_json_accuracy *)

\* round(score, 4) keeps four decimals: a score is held as the integer
\* ScoreUnit * score, so 1.0 is ScoreUnit and 0.6667 is 6667
ScoreUnit == 10000

\* Round4 cutting the decimals after the fourth instead of rounding
Round4Truncate(p, q) == (ScoreUnit * p) \div q

\* round(p / q, 4) in score units, for p >= 0 and q > 0: to the nearest, a tie
\* to the even neighbour as Python's round does
Round4(p, q) ==
    LET lo == (ScoreUnit * p) \div q
        rem == (ScoreUnit * p) % q
    IN IF 2 * rem < q THEN lo
       ELSE IF 2 * rem > q THEN lo + 1
       ELSE IF lo % 2 = 0 THEN lo ELSE lo + 1

\* lines 43-51 and round(score, 4): the score of changes against total_fields
ScoreOf(changes, total) ==
    IF total = 0
    THEN IF changes.total > 0 THEN 0 ELSE ScoreUnit
    ELSE LET c == changes.additions + changes.deletions + changes.modifications
         IN IF c >= total THEN 0 ELSE Round4(total - c, total)

NoStats == [additions |-> 0, deletions |-> 0, modifications |-> 0, total |-> 0]

\* the value of result before the call has returned
NoResult == [score |-> -1, jsonDiff |-> JNull, fullJsonDiff |-> JNull,
             jsonDiffStats |-> NoStats, totalFields |-> -1]

\* lines 18-21
Preprocess ==
    /\ pc = "start"
    /\ processed_actual' =
          IF ignore_cases THEN convert_strings_to_uppercase(actual) ELSE actual
    /\ processed_predicted' =
          IF ignore_cases THEN convert_strings_to_uppercase(predicted) ELSE predicted
    /\ pc' = "diff"
    /\ UNCHANGED <<actual, predicted, ignore_cases, full_diff, diff_result,
                   total_fields, result>>
    /\ UNCHANGED lookup_vars
    /\ UNCHANGED bench_vars

\* Diff counting the fields of processed_predicted
DiffCountsPredicted ==
    /\ pc = "diff"
    /\ full_diff' = DiffJson(processed_actual, processed_predicted, TRUE)
    /\ diff_result' = DiffJson(processed_actual, processed_predicted, FALSE)
    /\ total_fields' = count_total_fields(processed_predicted)
    /\ pc' = "check"
    /\ UNCHANGED <<actual, predicted, ignore_cases, processed_actual,
                   processed_predicted, result>>
    /\ UNCHANGED lookup_vars
    /\ UNCHANGED bench_vars

\* lines 23-25
Diff ==
    /\ pc = "diff"
    /\ full_diff' = DiffJson(processed_actual, processed_predicted, TRUE)
    /\ diff_result' = DiffJson(processed_actual, processed_predicted, FALSE)
    /\ total_fields' = count_total_fields(processed_actual)
    /\ pc' = "check"
    /\ UNCHANGED <<actual, predicted, ignore_cases, processed_actual,
                   processed_predicted, result>>
    /\ UNCHANGED lookup_vars
    /\ UNCHANGED bench_vars

\* lines 27-39: "if not diff_result"
ReturnNoDiff ==
    /\ pc = "check"
    /\ ~Truthy(diff_result)
    /\ result' = [score |-> ScoreUnit,
                  jsonDiff |-> EmptyDict,
                  fullJsonDiff |-> EmptyDict,
                  jsonDiffStats |-> NoStats,
                  totalFields |-> total_fields]
    /\ pc' = "done"
    /\ UNCHANGED <<actual, predicted, ignore_cases, processed_actual,
                   processed_predicted, full_diff, diff_result, total_fields>>
    /\ UNCHANGED lookup_vars
    /\ UNCHANGED bench_vars

\* ReturnScore taken for a mapping diff only
ReturnScoreOfDict ==
    /\ pc = "check"
    /\ Truthy(diff_result) /\ IsDict(diff_result)
    /\ LET changes == count_changes(diff_result)
       IN result' = [score |-> ScoreOf(changes, total_fields),
                     jsonDiff |-> diff_result,
                     fullJsonDiff |-> full_diff,
                     jsonDiffStats |-> changes,
                     totalFields |-> total_fields]
    /\ pc' = "done"
    /\ UNCHANGED <<actual, predicted, ignore_cases, processed_actual,
                   processed_predicted, full_diff, diff_result, total_fields>>
    /\ UNCHANGED lookup_vars
    /\ UNCHANGED bench_vars

\* lines 41-59
ReturnScore ==
    /\ pc = "check"
    /\ Truthy(diff_result)
    /\ LET changes == count_changes(diff_result)
       IN result' = [score |-> ScoreOf(changes, total_fields),
                     jsonDiff |-> diff_result,
                     fullJsonDiff |-> full_diff,
                     jsonDiffStats |-> changes,
                     totalFields |-> total_fields]
    /\ pc' = "done"
    /\ UNCHANGED <<actual, predicted, ignore_cases, processed_actual,
                   processed_predicted, full_diff, diff_result, total_fields>>
    /\ UNCHANGED lookup_vars
    /\ UNCHANGED bench_vars

Next == Preprocess \/ Diff \/ ReturnNoDiff \/ ReturnScore

\* the argument None, and a string s as argument
NoName == [given |-> FALSE, s |-> <<>>]
Name(s) == [given |-> TRUE, s |-> s]

\* no call of get_model_provider is made
NoLookup == name = NoName /\ provider = "idle"

\* run_benchmark is not running
NoRun ==
    /\ MODELS = <<>>
    /\ data = <<>>
    /\ clients = [gemini |-> FALSE, openai |-> FALSE]
    /\ sem = <<>>
    /\ providers = <<>>
    /\ tasks = <<>>
    /\ progress_bars = <<>>
    /\ results = <<>>
    /\ gathered = {}
    /\ written = <<>>
    /\ run = "idle"

\* a call of calculate_json_accuracy(a, b, ic) about to start
Call(a, b, ic) ==
    /\ actual = a
    /\ predicted = b
    /\ ignore_cases = ic
    /\ pc = "start"
    /\ processed_actual = JNull
    /\ processed_predicted = JNull
    /\ full_diff = JNull
    /\ diff_result = JNull
    /\ total_fields = 0
    /\ result = NoResult
    /\ NoLookup
    /\ NoRun

---------------------------------------------------------------------------
(* The inputs of the calls that are checked *)

MaxLen == 2    \* a generated list has at most MaxLen items
MaxKeys == 2   \* a generated mapping has at most MaxKeys keys

K_a == <<97>>                                    \* "a"
K_b == <<98>>                                    \* "b"
K_a_added == <<97>> \o S_added                   \* "a__added"

V_one == JNum(1)
V_a == JStr(<<97>>)                              \* "a"
V_A == JStr(<<65>>)                              \* "A"
Rec1 == JDict(Put(EmptyFcn, K_a, V_one))         \* {"a": 1}
Rec2 == JDict(Put(EmptyFcn, K_a, V_a))           \* {"a": "a"}
RecNull == JDict(Put(EmptyFcn, K_a, JNull))      \* {"a": None}
RecA == JDict(Put(EmptyFcn, K_a, V_A))           \* {"a": "A"}
Pair1a == JList(<<V_one, V_a>>)                  \* [1, "a"]
Paira1 == JList(<<V_a, V_one>>)                  \* ["a", 1]

Scalars == {JNull, JBool(TRUE), V_one, V_a, V_A}
Keys == {K_a, K_b, K_a_added}
ListItems == {JNull, V_one, V_a, Rec1, Rec2}
DictVals == {JNull, V_one, V_a, V_A, Pair1a}

\* the lists of at most n items of S
ListsOf(S, n) == {JList(s) : s \in UNION {[1..m -> S] : m \in 0..n}}

\* the mappings of at most n keys of K to values of S
DictsOf(K, S, n) ==
    {JDict(f) : f \in UNION {[D -> S] : D \in {E \in SUBSET K : Cardinality(E) <= n}}}

\* scalars, lists of scalars and records, mappings to scalars and lists
Flat == Scalars \cup ListsOf(ListItems, MaxLen) \cup DictsOf(Keys, DictVals, MaxKeys)

\* the values that are put below a key or into a list
Core == Scalars \cup
        {EmptyList, EmptyDict, Pair1a, Paira1, Rec1, Rec2, RecNull,
         JList(<<Rec1, Rec2>>), JList(<<Rec2, Rec1>>), JList(<<Rec1, RecNull>>),
         JList(<<Rec2, RecA>>), JList(<<RecA, Rec2>>),
         JDict(Put(Put(EmptyFcn, K_a, V_one), K_b, V_a))}

\* {"a": 1, "b": x}
UnderKey(x) == JDict(Put(Put(EmptyFcn, K_a, V_one), K_b, x))

\* {"a": 1, "a__added": x}
UnderMarkedKey(x) == JDict(Put(Put(EmptyFcn, K_a, V_one), K_a_added, x))

Nested == {UnderKey(x) : x \in Core}
            \cup {JList(<<x>>) : x \in Core}
            \cup {JList(<<x, V_one>>) : x \in Core}
            \cup {UnderKey(JList(<<x>>)) : x \in Core}
            \cup {UnderMarkedKey(x) : x \in Core}
            \cup {EmptyList, EmptyDict}

InputPairs == (Flat \X Flat) \cup (Nested \X Nested)

Init == \E p \in InputPairs, ic \in BOOLEAN : Call(p[1], p[2], ic)

Spec == Init /\ [][Next]_vars

---------------------------------------------------------------------------
(* Claims *)

Done == pc = "done"

\* C1. Identity: a call with predicted the same value as actual, whatever the
\* value and whatever ignore_cases, returns score 1.0, jsonDiff {} and
\* jsonDiffStats.total 0.
C1_Identity ==
    (Done /\ actual = predicted) =>
        /\ result.score = ScoreUnit
        /\ result.jsonDiff = EmptyDict
        /\ result.jsonDiffStats.total = 0

\* a call on twice {"a": 1, "b": [[{"a": 1}, {"a": None}]]} has returned
C1_Witness ==
    /\ Done
    /\ actual = UnderKey(JList(<<JList(<<Rec1, RecNull>>)>>))
    /\ predicted = actual

\* the exact value of max(0, 1 - t/n) lies within half a unit of score s, and
\* s is even when it lies exactly half a unit away
IsRounded(s, t, n) ==
    LET x == ScoreUnit * (IF t >= n THEN 0 ELSE n - t)
        d == IF n * s >= x THEN n * s - x ELSE x - n * s
    IN 2 * d <= n /\ (2 * d = n => s % 2 = 0)

\* C2. Score formula: with a, d, m the returned additions, deletions and
\* modifications and n the returned totalFields, total = a + d + m, the score
\* lies in [0, 1], it is max(0, 1 - (a + d + m)/n) rounded to four decimals
\* when n > 0, and when n = 0 it is 1.0 if a + d + m = 0 and 0.0 otherwise.
C2_ScoreFormula ==
    Done =>
        LET st == result.jsonDiffStats
            t == st.additions + st.deletions + st.modifications
            n == result.totalFields
        IN /\ st.total = t
           /\ result.score \in 0..ScoreUnit
           /\ n > 0 => IsRounded(result.score, t, n)
           /\ n = 0 => result.score = (IF t = 0 THEN ScoreUnit ELSE 0)

\* a call has returned 0.6667 for one change in three fields
C2_Witness ==
    /\ Done
    /\ result.totalFields = 3
    /\ result.jsonDiffStats.total = 1
    /\ result.score = 6667

\* s and t hold the same elements with the same multiplicities
IsPermutation(s, t) ==
    /\ Len(s) = Len(t)
    /\ \E f \in [1..Len(s) -> 1..Len(s)] :
          /\ \A i, j \in 1..Len(s) : f[i] = f[j] => i = j
          /\ \A i \in 1..Len(s) : s[i] = t[f[i]]

\* x and y are lists of mappings that are permutations of each other
PermutedRecords(x, y) ==
    /\ IsList(x) /\ IsList(y)
    /\ AllDicts(x) /\ AllDicts(y)
    /\ IsPermutation(x.v, y.v)

\* C3. Order-insensitivity for arrays of objects: when actual and predicted
\* are lists of mappings that are permutations of each other, or mappings with
\* the same keys whose values are either the same or such lists, the diff is
\* empty and the score is 1.0.
C3_OrderInsensitive ==
    (/\ pc \in {"check", "done"}
     /\ \/ PermutedRecords(actual, predicted)
        \/ /\ IsDict(actual) /\ IsDict(predicted)
           /\ DOMAIN actual.v = DOMAIN predicted.v
           /\ \A key \in DOMAIN actual.v :
                 \/ actual.v[key] = predicted.v[key]
                 \/ PermutedRecords(actual.v[key], predicted.v[key]))
    => /\ ~Truthy(diff_result)
       /\ ~Truthy(full_diff)
       /\ Done => (result.score = ScoreUnit /\ result.jsonDiff = EmptyDict)

\* a call on {"a": 1, "b": [{"a": 1}, {"a": "a"}]} and the same with the two
\* records swapped has returned
C3_Witness ==
    /\ Done
    /\ actual = UnderKey(JList(<<Rec1, Rec2>>))
    /\ predicted = UnderKey(JList(<<Rec2, Rec1>>))

\* the sum of f[x] over the x in S
RECURSIVE SumOver(_, _)
SumOver(f, S) ==
    IF S = {} THEN 0
    ELSE LET x == CHOOSE y \in S : TRUE IN f[x] + SumOver(f, S \ {x})

\* what an added or deleted value counts: 1 for a scalar or null, its leaf
\* fields for a mapping or list
EntryCount(value) ==
    IF IsContainer(value) THEN count_total_fields(value) ELSE 1

\* va and vb are both mappings or both lists
SameContainerKind(va, vb) ==
    (IsDict(va) /\ IsDict(vb)) \/ (IsList(va) /\ IsList(vb))

\* {"__old": old, "__new": new}
Box(old, new) == JDict([key \in {S_old, S_new} |-> IF key = S_old THEN old ELSE new])

BothDicts == IsDict(processed_actual) /\ IsDict(processed_predicted)

\* key holds two underscores in a row
HasMarker(key) == \E i \in 1..(Len(key) - 1) : key[i] = 95 /\ key[i + 1] = 95

\* no key of x, at any depth, holds the marker "__"
RECURSIVE PlainKeys(_)
PlainKeys(x) ==
    CASE x.k = "dict" ->
            \A key \in DOMAIN x.v : ~HasMarker(key) /\ PlainKeys(x.v[key])
      [] x.k = "list" -> \A i \in 1..Len(x.v) : PlainKeys(x.v[i])
      [] OTHER -> TRUE

\* the call is one whose two inputs hold no key with the marker
PlainCall == PlainKeys(actual) /\ PlainKeys(predicted)

\* C4. Mapping-level additions and deletions: for mappings, every key k only
\* in predicted is in jsonDiff as k__added holding predicted[k], every key k
\* only in actual as k__deleted holding actual[k]; each counts 1 when its value
\* is a scalar or null and the leaf fields of its value otherwise, so that
\* additions and deletions are at least these sums, and are these sums when
\* no key common to both holds two lists or two mappings.
C4_AddedDeleted ==
    (Done /\ BothDicts) =>
        LET a == processed_actual.v
            b == processed_predicted.v
            d == result.jsonDiff.v
            onlyB == DOMAIN b \ DOMAIN a
            onlyA == DOMAIN a \ DOMAIN b
            adds == SumOver([k \in onlyB |-> EntryCount(b[k])], onlyB)
            dels == SumOver([k \in onlyA |-> EntryCount(a[k])], onlyA)
            nested == \E k \in DOMAIN a \cap DOMAIN b : SameContainerKind(a[k], b[k])
        IN /\ \A k \in onlyB : (k \o S_added) \in DOMAIN d /\ d[k \o S_added] = b[k]
           /\ \A k \in onlyA : (k \o S_deleted) \in DOMAIN d /\ d[k \o S_deleted] = a[k]
           /\ result.jsonDiffStats.additions >= adds
           /\ result.jsonDiffStats.deletions >= dels
           /\ ~nested => /\ result.jsonDiffStats.additions = adds
                         /\ result.jsonDiffStats.deletions = dels

\* C5. Mapping-level modification: for mappings, a key in both whose values
\* are unequal and not both mappings and not both lists is in jsonDiff as
\* exactly {"__old": actual[key], "__new": predicted[key]}, and a key in both
\* with equal values is not in jsonDiff.
C5_Modified ==
    (Done /\ BothDicts) =>
        LET a == processed_actual.v
            b == processed_predicted.v
            d == result.jsonDiff.v
        IN \A k \in DOMAIN a \cap DOMAIN b :
              /\ (~PyEq(a[k], b[k]) /\ ~SameContainerKind(a[k], b[k]))
                    => (k \in DOMAIN d /\ d[k] = Box(a[k], b[k]))
              /\ PyEq(a[k], b[k]) => k \notin DOMAIN d

\* old against new is a modification node: unequal, not both mappings and not
\* both lists
IsModification(old, new) == ~PyEq(old, new) /\ ~SameContainerKind(old, new)

\* the three places of one modification box and nothing else in the diff:
\* the whole value, the value of one key of two mappings equal elsewhere, and
\* the first item of a one-item list against a longer list (index-wise)
SingleBox(old, new) ==
    /\ IsModification(old, new)
    /\ \/ processed_actual = old /\ processed_predicted = new
       \/ /\ BothDicts
          /\ DOMAIN processed_actual.v = DOMAIN processed_predicted.v
          /\ \E k \in DOMAIN processed_actual.v :
                /\ processed_actual.v[k] = old
                /\ processed_predicted.v[k] = new
                /\ \A j \in DOMAIN processed_actual.v \ {k} :
                      processed_actual.v[j] = processed_predicted.v[j]
       \/ /\ IsList(processed_actual) /\ IsList(processed_predicted)
          /\ Len(processed_actual.v) = 1 /\ Len(processed_predicted.v) > 1
          /\ processed_actual.v[1] = old /\ processed_predicted.v[1] = new

\* the values that occur as old or new value of a box
Operands ==
    {processed_actual, processed_predicted}
      \cup (IF IsDict(processed_actual)
            THEN {processed_actual.v[k] : k \in DOMAIN processed_actual.v}
            ELSE IF IsList(processed_actual)
            THEN {processed_actual.v[i] : i \in 1..Len(processed_actual.v)}
            ELSE {})
      \cup (IF IsDict(processed_predicted)
            THEN {processed_predicted.v[k] : k \in DOMAIN processed_predicted.v}
            ELSE IF IsList(processed_predicted)
            THEN {processed_predicted.v[i] : i \in 1..Len(processed_predicted.v)}
            ELSE {})

\* C6. Null-collapse penalty: a modification box whose old value is not null
\* adds to modifications the leaf fields of the old value, or 1 when there are
\* none, whatever the new value: when the box is the only modification of the
\* diff, modifications is that number.
C6_OldNotNull ==
    Done =>
        \A old, new \in Operands :
            (SingleBox(old, new) /\ old # JNull) =>
                result.jsonDiffStats.modifications =
                    (IF count_total_fields(old) = 0 THEN 1
                     ELSE count_total_fields(old))

\* C7. Null-to-value penalty: a modification box whose old value is null and
\* whose new value is not adds to modifications the leaf fields of the new
\* value, or 1 when there are none, under a mapping key and inside a list
\* entry tagged "~": when the box is the only modification of the diff,
\* modifications is that number.
C7_OldNull ==
    Done =>
        \A old, new \in Operands :
            (SingleBox(old, new) /\ old = JNull /\ new # JNull) =>
                result.jsonDiffStats.modifications =
                    (IF count_total_fields(new) = 0 THEN 1
                     ELSE count_total_fields(new))

\* x and y differ at most in the letter case of string leaves
RECURSIVE SameUpToCase(_, _)
SameUpToCase(x, y) ==
    /\ x.k = y.k
    /\ CASE x.k = "str" -> Upper(x.v) = Upper(y.v)
         [] x.k = "list" ->
               /\ Len(x.v) = Len(y.v)
               /\ \A i \in 1..Len(x.v) : SameUpToCase(x.v[i], y.v[i])
         [] x.k = "dict" ->
               /\ DOMAIN x.v = DOMAIN y.v
               /\ \A key \in DOMAIN x.v : SameUpToCase(x.v[key], y.v[key])
         [] OTHER -> x = y

\* C8. Case-insensitive mode: for actual and predicted that differ only in the
\* letter case of string leaves, ignore_cases = true gives jsonDiff {} and
\* score 1.0, and ignore_cases = false gives, when a leaf does differ, a
\* non-empty jsonDiff with at least one modification.
C8_IgnoreCases ==
    (Done /\ SameUpToCase(actual, predicted)) =>
        IF ignore_cases
        THEN result.jsonDiff = EmptyDict /\ result.score = ScoreUnit
        ELSE actual # predicted =>
                /\ result.jsonDiff # EmptyDict
                /\ result.jsonDiffStats.modifications >= 1

\* some list of x, at any depth, holds two or more items that are all mappings
RECURSIVE HasRecordList(_)
HasRecordList(x) ==
    CASE x.k = "dict" -> \E key \in DOMAIN x.v : HasRecordList(x.v[key])
      [] x.k = "list" ->
            \/ Len(x.v) >= 2 /\ AllDicts(x)
            \/ \E i \in 1..Len(x.v) : HasRecordList(x.v[i])
      [] OTHER -> FALSE

\* The statements of C4 to C7 hold for the calls whose inputs hold no key with
\* the marker "__", and that of C8 for those of them without a list of two
\* or more mappings.
PlainKeys_AddedDeleted == PlainCall => C4_AddedDeleted
PlainKeys_Modified == PlainCall => C5_Modified
PlainKeys_OldNotNull == PlainCall => C6_OldNotNull
PlainKeys_OldNull == PlainCall => C7_OldNull
PlainKeys_IgnoreCases ==
    (PlainCall /\ ~HasRecordList(actual)) => C8_IgnoreCases

\* x is an empty mapping or an empty list
IsEmpty(x) == IsContainer(x) /\ ~Truthy(x)

\* C9. Compact and full diff agree on emptiness: the full diff computed for a
\* call is empty exactly when the compact diff is, and the returned
\* fullJsonDiff is {} exactly when the returned jsonDiff is {}.
C9_SameEmptiness ==
    /\ pc \in {"check", "done"} => (IsEmpty(full_diff) <=> IsEmpty(diff_result))
    /\ Done => (result.fullJsonDiff = EmptyDict <=> result.jsonDiff = EmptyDict)

\* a call whose diffs are a nested "~" entry under key "b" has returned
C9_Witness ==
    /\ Done
    /\ actual = UnderKey(JList(<<Rec1, Rec2>>))
    /\ predicted = UnderKey(JList(<<Rec1, RecNull>>))
    /\ result.jsonDiff # EmptyDict
    /\ result.fullJsonDiff # EmptyDict

\* the leaf fields of v as the set of their paths: a path names the keys
\* and list positions from v down to a counted leaf
RECURSIVE LeafPaths(_)
LeafPaths(v) ==
    CASE IsDict(v) ->
            UNION {{<<k>> \o q : q \in
                        (IF IsContainer(v.v[k]) THEN LeafPaths(v.v[k]) ELSE {<<>>})}
                   : k \in {j \in DOMAIN v.v : ~HasMarker(j)}}
      [] IsList(v) ->
            UNION {{<<(<<i>>)>> \o q : q \in
                        (IF IsDict(v.v[i]) THEN LeafPaths(v.v[i]) ELSE {<<>>})}
                   : i \in 1..Len(v.v)}
      [] OTHER -> {}

\* C10. Leaf field counting: count_total_fields(v) is 0 for a scalar or null;
\* for a mapping it is the sum over the keys without "__" of 1 for a scalar or
\* null value, the count of a nested mapping, and for a list value the number
\* of its items that are no mappings plus the counts of those that are; empty
\* containers and keys with "__" (with all below them) count nothing.
C10_LeafFields ==
    pc \in {"check", "done"} =>
        total_fields = Cardinality(LeafPaths(processed_actual))

\* the fields of {"a__added": [1, "a"], "b": [1, "a"]} have been counted: 2
C10_Witness ==
    /\ pc = "check"
    /\ processed_actual =
          JDict(Put(Put(EmptyFcn, K_a_added, Pair1a), K_b, Pair1a))
    /\ total_fields = 2

\* the values of the calls whose return is checked: null, scalars, lists and
\* mappings, empty, flat and nested
LiveValues ==
    {JNull, V_one, V_a, EmptyList, EmptyDict, Pair1a, Rec1,
     JList(<<Rec1, RecNull>>), JList(<<Pair1a>>), UnderKey(Pair1a)}

LiveInit ==
    \E a \in LiveValues, b \in LiveValues, ic \in BOOLEAN : Call(a, b, ic)

\* a call is one thread of control that is not suspended: it takes its next
\* step as long as it has one
LiveSpec == LiveInit /\ [][Next]_vars /\ WF_vars(Next)

\* x is a JSON value of the diff formats: a mapping or a list
IsDiffValue(x) == IsDict(x) \/ IsList(x)

\* the returned value holds the five fields of an AccuracyResult
ResultShape ==
    /\ DOMAIN result =
          {"score", "jsonDiff", "fullJsonDiff", "jsonDiffStats", "totalFields"}
    /\ result.score \in 0..ScoreUnit
    /\ IsDiffValue(result.jsonDiff) /\ IsDiffValue(result.fullJsonDiff)
    /\ DOMAIN result.jsonDiffStats =
          {"additions", "deletions", "modifications", "total"}
    /\ \A f \in DOMAIN result.jsonDiffStats : result.jsonDiffStats[f] \in Nat
    /\ result.totalFields \in Nat

\* actual and predicted are of different kinds and one is a mapping or a list
KindMismatch ==
    /\ actual.k # predicted.k
    /\ IsContainer(actual) \/ IsContainer(predicted)

Returned_Totality ==
    Done =>
        /\ ResultShape
        /\ KindMismatch =>
              /\ result.jsonDiff = Box(processed_actual, processed_predicted)
              /\ result.jsonDiffStats.modifications >= 1
              /\ result.jsonDiffStats.additions = 0
              /\ result.jsonDiffStats.deletions = 0

---------------------------------------------------------------------------
(* Concurrent calls of calculate_json_accuracy *)

\* In ConcSpec the arguments actual and predicted are two objects shared by
\* all calls, and ignore_cases, pc, the locals and result are functions that
\* give each call its own.
NCalls == 2
Calls == 1..NCalls

\* SharedAfterMatch with b_copy an alias of b instead of a copy
SharedAfterMatchAlias(b, b_copy) == b_copy

\* line 158, b_copy = list(b): the matching pops from a new list, so the list
\* b that the caller passed is after the loop what it was before
SharedAfterMatch(b, b_copy) == b

\* the argument b after _diff_json(a, b, full) has run on lists: the only
\* container the function calls a mutating method on is b_copy (line 170)
ArgAfterDiff(a, b) ==
    IF IsList(a) /\ IsList(b) /\ Len(a.v) = Len(b.v) /\ AllDicts(a) /\ AllDicts(b)
    THEN JList(SharedAfterMatch(b.v, GreedyLoop(a.v, 1, b.v).b_copy))
    ELSE b

\* lines 18-21 for call c
CPreprocess(c) ==
    /\ pc[c] = "start"
    /\ processed_actual' = [processed_actual EXCEPT ![c] =
          IF ignore_cases[c] THEN convert_strings_to_uppercase(actual) ELSE actual]
    /\ processed_predicted' = [processed_predicted EXCEPT ![c] =
          IF ignore_cases[c] THEN convert_strings_to_uppercase(predicted)
          ELSE predicted]
    /\ pc' = [pc EXCEPT ![c] = "diff"]
    /\ UNCHANGED <<actual, predicted, ignore_cases, full_diff, diff_result,
                   total_fields, result>>
    /\ UNCHANGED lookup_vars
    /\ UNCHANGED bench_vars

\* lines 23-25 for call c; without ignore_cases the processed values are the
\* shared arguments themselves (lines 18-21), so what _diff_json leaves of its
\* argument b is what it leaves of predicted
CDiff(c) ==
    /\ pc[c] = "diff"
    /\ full_diff' = [full_diff EXCEPT ![c] =
          DiffJson(processed_actual[c], processed_predicted[c], TRUE)]
    /\ diff_result' = [diff_result EXCEPT ![c] =
          DiffJson(processed_actual[c], processed_predicted[c], FALSE)]
    /\ total_fields' = [total_fields EXCEPT ![c] =
          count_total_fields(processed_actual[c])]
    /\ predicted' = IF ignore_cases[c] THEN predicted
                    ELSE ArgAfterDiff(processed_actual[c], predicted)
    /\ pc' = [pc EXCEPT ![c] = "check"]
    /\ UNCHANGED <<actual, ignore_cases, processed_actual, processed_predicted,
                   result>>
    /\ UNCHANGED lookup_vars
    /\ UNCHANGED bench_vars

\* lines 27-39 for call c
CReturnNoDiff(c) ==
    /\ pc[c] = "check"
    /\ ~Truthy(diff_result[c])
    /\ result' = [result EXCEPT ![c] =
                    [score |-> ScoreUnit,
                     jsonDiff |-> EmptyDict,
                     fullJsonDiff |-> EmptyDict,
                     jsonDiffStats |-> NoStats,
                     totalFields |-> total_fields[c]]]
    /\ pc' = [pc EXCEPT ![c] = "done"]
    /\ UNCHANGED <<actual, predicted, ignore_cases, processed_actual,
                   processed_predicted, full_diff, diff_result, total_fields>>
    /\ UNCHANGED lookup_vars
    /\ UNCHANGED bench_vars

\* lines 41-59 for call c
CReturnScore(c) ==
    /\ pc[c] = "check"
    /\ Truthy(diff_result[c])
    /\ LET changes == count_changes(diff_result[c])
       IN result' = [result EXCEPT ![c] =
                       [score |-> ScoreOf(changes, total_fields[c]),
                        jsonDiff |-> diff_result[c],
                        fullJsonDiff |-> full_diff[c],
                        jsonDiffStats |-> changes,
                        totalFields |-> total_fields[c]]]
    /\ pc' = [pc EXCEPT ![c] = "done"]
    /\ UNCHANGED <<actual, predicted, ignore_cases, processed_actual,
                   processed_predicted, full_diff, diff_result, total_fields>>
    /\ UNCHANGED lookup_vars
    /\ UNCHANGED bench_vars

ConcNext ==
    \E c \in Calls :
        CPreprocess(c) \/ CDiff(c) \/ CReturnNoDiff(c) \/ CReturnScore(c)

\* the shared arguments of the concurrent calls
ConcValues == Core

ConcInit ==
    /\ actual \in ConcValues
    /\ predicted \in ConcValues
    /\ ignore_cases \in [Calls -> BOOLEAN]
    /\ pc = [c \in Calls |-> "start"]
    /\ processed_actual = [c \in Calls |-> JNull]
    /\ processed_predicted = [c \in Calls |-> JNull]
    /\ full_diff = [c \in Calls |-> JNull]
    /\ diff_result = [c \in Calls |-> JNull]
    /\ total_fields = [c \in Calls |-> 0]
    /\ result = [c \in Calls |-> NoResult]
    /\ NoLookup
    /\ NoRun

ConcSpec == ConcInit /\ [][ConcNext]_vars

\* what calculate_json_accuracy(a, b, ic) returns when it runs alone
Alone(a, b, ic) ==
    LET pa == IF ic THEN convert_strings_to_uppercase(a) ELSE a
        pb == IF ic THEN convert_strings_to_uppercase(b) ELSE b
        compact == DiffJson(pa, pb, FALSE)
        changes == count_changes(compact)
    IN IF ~Truthy(compact)
       THEN [score |-> ScoreUnit, jsonDiff |-> EmptyDict,
             fullJsonDiff |-> EmptyDict, jsonDiffStats |-> NoStats,
             totalFields |-> count_total_fields(pa)]
       ELSE [score |-> ScoreOf(changes, count_total_fields(pa)),
             jsonDiff |-> compact,
             fullJsonDiff |-> DiffJson(pa, pb, TRUE),
             jsonDiffStats |-> changes,
             totalFields |-> count_total_fields(pa)]

\* C12. Concurrency safety: in every interleaving of the steps of concurrent
\* calls that share actual and predicted, no step changes actual or
\* predicted, a step of one call changes nothing of another call, and each
\* call returns what it returns when run alone.
C12_Isolated ==
    /\ [][/\ actual' = actual
          /\ predicted' = predicted
          /\ \E c \in Calls : \A o \in Calls \ {c} :
                /\ pc'[o] = pc[o]
                /\ processed_actual'[o] = processed_actual[o]
                /\ processed_predicted'[o] = processed_predicted[o]
                /\ full_diff'[o] = full_diff[o]
                /\ diff_result'[o] = diff_result[o]
                /\ total_fields'[o] = total_fields[o]
                /\ result'[o] = result[o]]_vars
    /\ [](\A c \in Calls :
            pc[c] = "done" => result[c] = Alone(actual, predicted, ignore_cases[c]))

\* two calls on the same permuted lists of records, where the matching pops
\* from its copy, have both returned, the first before the second has begun
\* to compare
C12_Witness ==
    /\ actual = JList(<<Rec1, Rec2>>)
    /\ predicted = JList(<<Rec2, Rec1>>)
    /\ \A c \in Calls : pc[c] = "done" /\ result[c].score = ScoreUnit

---------------------------------------------------------------------------
(* Claims on single calls, continued *)

\* C13. totalFields is computed from actual only: whatever predicted is, and
\* whether or not a difference is found, the returned totalFields is
\* count_total_fields(actual), which is the same number with and without
\* ignore_cases.
C13_TotalFieldsOfActual ==
    Done => result.totalFields = count_total_fields(actual)

\* a call with ignore_cases whose predicted has more fields than actual has
\* returned differences
C13_Witness ==
    /\ Done
    /\ ignore_cases
    /\ actual = UnderKey(V_a)
    /\ predicted = UnderKey(JList(<<Rec1, Rec2>>))
    /\ result.jsonDiff # EmptyDict
    /\ result.totalFields = 2
    /\ count_total_fields(predicted) = 3

\* key with the suffix "__added" exchanged with "__deleted"
SwapKey(key) ==
    IF EndsWith(key, S_added)
    THEN SubSeq(key, 1, Len(key) - Len(S_added)) \o S_deleted
    ELSE IF EndsWith(key, S_deleted)
    THEN SubSeq(key, 1, Len(key) - Len(S_deleted)) \o S_added
    ELSE key

IsTagged(key) == EndsWith(key, S_added) \/ EndsWith(key, S_deleted)

\* the compact diff d with every "__old"/"__new" pair exchanged, every suffix
\* "__added" exchanged with "__deleted" and every list tag "+" with "-"; the
\* values that the diff carries (old, new, added and deleted ones) are kept
RECURSIVE SwapDiff(_)
SwapDiff(d) ==
    CASE IsDict(d) /\ IsBox(d) ->
            JDict([key \in DOMAIN d.v |->
                     IF key = S_old THEN d.v[S_new]
                     ELSE IF key = S_new THEN d.v[S_old]
                     ELSE d.v[key]])
      [] IsDict(d) /\ ~IsBox(d) ->
            JDict([key \in {SwapKey(j) : j \in DOMAIN d.v} |->
                     IF IsTagged(key) THEN d.v[SwapKey(key)]
                     ELSE SwapDiff(d.v[key])])
      [] IsList(d) ->
            JList([i \in 1..Len(d.v) |->
                     LET entry == d.v[i]
                     IN IF ~IsList(entry) \/ Len(entry.v) # 2 THEN entry
                        ELSE IF entry.v[1] = JStr(S_plus)
                        THEN JList(<<JStr(S_minus), entry.v[2]>>)
                        ELSE IF entry.v[1] = JStr(S_minus)
                        THEN JList(<<JStr(S_plus), entry.v[2]>>)
                        ELSE JList(<<entry.v[1], SwapDiff(entry.v[2])>>)])
      [] OTHER -> d

\* C14. Swap symmetry of the diff: the compact diff of (b, a) is the compact
\* diff of (a, b) with every "__old"/"__new" pair exchanged, every "__added"
\* suffix exchanged with "__deleted" and every list tag "+" with "-"; the
\* diff of (b, a) is empty exactly when that of (a, b) is.
C14_SwapSymmetry ==
    pc \in {"check", "done"} =>
        LET swapped == DiffJson(processed_predicted, processed_actual, FALSE)
        IN /\ swapped = SwapDiff(diff_result)
           /\ Truthy(swapped) <=> Truthy(diff_result)

\* The statement of C14 holds for the calls whose inputs hold no key with the
\* marker "__".
PlainKeys_SwapSymmetry == PlainCall => C14_SwapSymmetry

---------------------------------------------------------------------------
(* get_model_provider (src/ocr_benchmark/models/__init__.py) *)

\* "ground-truth"
S_ground_truth == <<103, 114, 111, 117, 110, 100, 45, 116, 114, 117, 116, 104>>
S_gemini == <<103, 101, 109, 105, 110, 105>>   \* "gemini"
S_g_dash == <<103, 45>>   \* "g-"
S_google == <<103, 111, 111, 103, 108, 101>>   \* "google"
S_openai == <<111, 112, 101, 110, 97, 105>>   \* "openai"
S_gpt == <<103, 112, 116>>   \* "gpt"

\* str.lower on the ASCII letters
Lower(s) == [i \in 1..Len(s) |-> IF s[i] \in 65..90 THEN s[i] + 32 ELSE s[i]]

\* key.startswith(prefix)
StartsWith(key, prefix) ==
    Len(key) >= Len(prefix) /\ SubSeq(key, 1, Len(prefix)) = prefix

\* Gemini(name, output_dir) and OpenAIProvider(name, output_dir): the
\* constructors raise RuntimeError when the client of the vendor is not
\* configured in the environment
Construct(class, client_ok) == IF client_ok THEN class ELSE "RuntimeError"

\* get_model_provider ending in "return None" where it raises
get_model_provider_none(n, gemini_ok, openai_ok) ==
    IF ~n.given \/ n.s = <<>> THEN "None"
    ELSE LET key == Lower(n.s)
         IN IF key = S_ground_truth THEN "None"
            ELSE IF Contains(key, S_gemini) \/ StartsWith(key, S_g_dash)
                    \/ Contains(key, S_google)
            THEN Construct("Gemini", gemini_ok)
            ELSE IF Contains(key, S_openai) \/ StartsWith(key, S_gpt)
                    \/ Contains(key, S_gpt)
            THEN Construct("OpenAIProvider", openai_ok)
            ELSE "None"

\* get_model_provider(name, output_dir): "None" for the return of None, the
\* class of the provider that is returned, or the exception that is raised
get_model_provider(n, gemini_ok, openai_ok) ==
    IF ~n.given \/ n.s = <<>> THEN "None"
    ELSE LET key == Lower(n.s)
         IN IF key = S_ground_truth THEN "None"
            ELSE IF Contains(key, S_gemini) \/ StartsWith(key, S_g_dash)
                    \/ Contains(key, S_google)
            THEN Construct("Gemini", gemini_ok)
            ELSE IF Contains(key, S_openai) \/ StartsWith(key, S_gpt)
                    \/ Contains(key, S_gpt)
            THEN Construct("OpenAIProvider", openai_ok)
            ELSE "NotImplementedError"

\* the call get_model_provider(name), in an environment where each vendor's
\* client is configured or not
Lookup ==
    /\ provider = "pending"
    /\ \E gemini_ok \in BOOLEAN, openai_ok \in BOOLEAN :
          provider' = get_model_provider(name, gemini_ok, openai_ok)
    /\ UNCHANGED <<actual, predicted, ignore_cases, pc, processed_actual,
                   processed_predicted, full_diff, diff_result, total_fields,
                   result, name>>
    /\ UNCHANGED bench_vars

LookupNext == Lookup

\* the names that are looked up: a start, a stem and an end each
NameStarts == {<<>>, <<120>>, <<103, 45>>, <<71, 45>>}   \* "", "x", "g-", "G-"
\* "", "ground-truth", "Ground-Truth", "GROUND-TRUTH", "gemini", "Gemini", "google", "openai", "OpenAI", "gpt", "GPT", "this-does-not-exist", "g", "mistral"
NameStems ==
    {<<>>,
     <<103, 114, 111, 117, 110, 100, 45, 116, 114, 117, 116, 104>>,
     <<71, 114, 111, 117, 110, 100, 45, 84, 114, 117, 116, 104>>,
     <<71, 82, 79, 85, 78, 68, 45, 84, 82, 85, 84, 72>>,
     <<103, 101, 109, 105, 110, 105>>,
     <<71, 101, 109, 105, 110, 105>>,
     <<103, 111, 111, 103, 108, 101>>,
     <<111, 112, 101, 110, 97, 105>>,
     <<79, 112, 101, 110, 65, 73>>,
     <<103, 112, 116>>,
     <<71, 80, 84>>,
     <<116, 104, 105, 115, 45, 100, 111, 101, 115, 45, 110, 111, 116, 45, 101, 120, 105, 115, 116>>,
     <<103>>,
     <<109, 105, 115, 116, 114, 97, 108>>}
NameEnds == {<<>>, <<45, 52>>}   \* "", "-4"

Names == {NoName} \cup
         {Name(a \o b \o c) : a \in NameStarts, b \in NameStems, c \in NameEnds}

LookupInit ==
    /\ name \in Names
    /\ provider = "pending"
    /\ actual = JNull
    /\ predicted = JNull
    /\ ignore_cases = FALSE
    /\ pc = "idle"
    /\ processed_actual = JNull
    /\ processed_predicted = JNull
    /\ full_diff = JNull
    /\ diff_result = JNull
    /\ total_fields = 0
    /\ result = NoResult
    /\ NoRun

LookupSpec == LookupInit /\ [][LookupNext]_vars

\* s, read in lower case, is of a provider family that is implemented
InFamily(s) ==
    LET key == Lower(s)
    IN \/ Contains(key, S_gemini) \/ StartsWith(key, S_g_dash)
       \/ Contains(key, S_google)
       \/ Contains(key, S_openai) \/ Contains(key, S_gpt)

Looked == provider # "pending"

\* C15. Provider lookup: get_model_provider returns None for an empty or
\* missing name and for the sentinel "ground-truth", and for every other name
\* that is of no implemented provider family it raises NotImplementedError
\* instead of returning None.
C15_Lookup ==
    Looked =>
        /\ (~name.given \/ name.s = <<>>) => provider = "None"
        /\ (name.given /\ name.s = S_ground_truth) => provider = "None"
        /\ (name.given /\ name.s # <<>> /\ name.s # S_ground_truth
              /\ ~InFamily(name.s)) => provider = "NotImplementedError"

\* C15 as the code has it: the sentinel is "ground-truth" in any letter case
\* ("Ground-Truth" and "GROUND-TRUTH" return None as well); None is returned
\* for a missing name, an empty name and the sentinel only, and every other
\* name of no implemented provider family raises NotImplementedError.
C15_LookupAnyCase ==
    Looked =>
        LET sentinel == name.given /\ Lower(name.s) = S_ground_truth
            empty == ~name.given \/ name.s = <<>>
        IN /\ (empty \/ sentinel) <=> provider = "None"
           /\ (~empty /\ ~sentinel /\ ~InFamily(name.s))
                 <=> provider = "NotImplementedError"

\* the lookup of "this-does-not-exist" has raised NotImplementedError
C15_Witness ==
    /\ name = Name(<<116, 104, 105, 115, 45, 100, 111, 101, 115, 45, 110, 111,
                     116, 45, 101, 120, 105, 115, 116>>)
    /\ provider = "NotImplementedError"

\* old and new are compared at one place and nothing else differs: they are
\* the two values, or the values of one key of two mappings equal elsewhere,
\* or the first items of a one-item list and a longer list (index-wise)
OnePlace(old, new) ==
    \/ processed_actual = old /\ processed_predicted = new
    \/ /\ BothDicts
       /\ DOMAIN processed_actual.v = DOMAIN processed_predicted.v
       /\ \E k \in DOMAIN processed_actual.v :
             /\ processed_actual.v[k] = old
             /\ processed_predicted.v[k] = new
             /\ \A j \in DOMAIN processed_actual.v \ {k} :
                   processed_actual.v[j] = processed_predicted.v[j]
    \/ /\ IsList(processed_actual) /\ IsList(processed_predicted)
       /\ Len(processed_actual.v) = 1 /\ Len(processed_predicted.v) > 1
       /\ processed_actual.v[1] = old /\ processed_predicted.v[1] = new

\* two lists of equal length that are not both lists of mappings and are not
\* equal (as Python's == compares them)
WholeListPair(a, b) ==
    /\ IsList(a) /\ IsList(b)
    /\ Len(a.v) = Len(b.v)
    /\ ~(AllDicts(a) /\ AllDicts(b))
    /\ ~PyEq(a, b)

\* C16. Whole-list modification: two lists of equal length that are not both
\* lists of mappings and are not equal give one modification box
\* {"__old": a, "__new": b} for the entire list, and the box adds to
\* modifications the leaf fields of the old list, at least 1: when the two
\* lists are the only difference of a call, modifications is that number.
C16_WholeList ==
    Done =>
        \A a, b \in Operands :
            WholeListPair(a, b) =>
                /\ DiffJson(a, b, FALSE) = Box(a, b)
                /\ OnePlace(a, b) =>
                      result.jsonDiffStats.modifications =
                          (IF count_total_fields(a) = 0 THEN 1
                           ELSE count_total_fields(a))

\* The statement of C16 holds for the calls whose inputs hold no key with the
\* marker "__".
PlainKeys_WholeList == PlainCall => C16_WholeList

\* the concatenation of the sequences f[lo], ..., f[hi]
RECURSIVE Concat(_, _, _)
Concat(f, lo, hi) ==
    IF lo > hi THEN <<>> ELSE f[lo] \o Concat(f, lo + 1, hi)

Min(m, n) == IF m < n THEN m ELSE n
Max(m, n) == IF m > n THEN m ELSE n

\* what the claim C17 says of the compact diff of the lists a and b: for each
\* index in increasing order, below the shorter length one entry tagged "~"
\* exactly when the two items have a non-empty diff, and from there on one
\* entry ["-", a[i]] or ["+", b[i]]
IndexWise(a, b) ==
    LET EntryAt(i) ==
          IF i <= Min(Len(a.v), Len(b.v))
          THEN LET child == DiffJson(a.v[i], b.v[i], FALSE)
               IN IF Truthy(child) THEN <<JList(<<JStr(S_tilde), child>>)>>
                  ELSE <<>>
          ELSE IF i <= Len(a.v) THEN <<JList(<<JStr(S_minus), a.v[i]>>)>>
          ELSE <<JList(<<JStr(S_plus), b.v[i]>>)>>
        top == Max(Len(a.v), Len(b.v))
    IN JList(Concat([i \in 1..top |-> EntryAt(i)], 1, top))

\* the number of entries of the list diff d whose tag is in ops
TagCount(d, ops) ==
    Cardinality({i \in 1..Len(d.v) : d.v[i].v[1] \in {JStr(op) : op \in ops}})

EntryTally(entry) ==
    LET op == entry.v[1]
        value == entry.v[2]
        n == IF IsDict(value) THEN count_total_fields(value) ELSE 1
    IN CASE op = JStr(S_plus) ->
               [additions |-> n, deletions |-> 0, modifications |-> 0]
         [] op = JStr(S_minus) ->
               [additions |-> 0, deletions |-> n, modifications |-> 0]
         [] op = JStr(S_tilde) ->
               IF IsDict(value) THEN ChangesTraverse(value)
               ELSE [additions |-> 0, deletions |-> 0, modifications |-> 1]

\* the sum of the tallies of the entries of the list node d
ListTally(d) ==
    LET idx == 1..Len(d.v)
    IN [additions |-> SumOver([i \in idx |-> EntryTally(d.v[i]).additions], idx),
        deletions |-> SumOver([i \in idx |-> EntryTally(d.v[i]).deletions], idx),
        modifications |->
            SumOver([i \in idx |-> EntryTally(d.v[i]).modifications], idx)]

\* the list nodes of the returned compact diff that count_changes walks: the
\* diff itself, and the values of the keys of a mapping diff that do not end
\* in "__added" or "__deleted"
WalkedListNodes ==
    IF IsList(result.jsonDiff) THEN {result.jsonDiff}
    ELSE IF IsBox(result.jsonDiff) THEN {}
    ELSE {result.jsonDiff.v[key] :
            key \in {j \in DOMAIN result.jsonDiff.v :
                       ~IsTagged(j) /\ IsList(result.jsonDiff.v[j])}}

\* C18. List-level change counting: walking a list node of the compact diff,
\* count_changes adds for an entry [op, value] whose value is no mapping 1 to
\* the bucket of op (also when value is a list), for "+" or "-" with a
\* mapping the leaf fields of the mapping, and for "~" with a mapping the
\* tally of the mapping walked as a nested diff; a diff that is a list node
\* is counted as the sum of these.
C18_ListCounting ==
    Done =>
        /\ \A d \in WalkedListNodes : ChangesTraverse(d) = ListTally(d)
        /\ IsList(result.jsonDiff) =>
              /\ result.jsonDiffStats.additions = ListTally(result.jsonDiff).additions
              /\ result.jsonDiffStats.deletions = ListTally(result.jsonDiff).deletions
              /\ result.jsonDiffStats.modifications =
                    ListTally(result.jsonDiff).modifications

\* a call on [] and [[1, "a"]] has returned one "+" entry whose value is a
\* list, counted as one addition
C18_Witness ==
    /\ Done
    /\ actual = EmptyList
    /\ predicted = JList(<<Pair1a>>)
    /\ result.jsonDiff = JList(<<JList(<<JStr(S_plus), Pair1a>>)>>)
    /\ result.jsonDiffStats.additions = 1

\* one of a and b is a mapping or a list and the other is of another kind
MismatchedKinds(a, b) == a.k # b.k /\ (IsContainer(a) \/ IsContainer(b))

IsPrimitive(x) == ~IsContainer(x)

\* the diff of the primitives a and b is empty only for the same kind and
\* value, and is the box of both when the kinds differ
ExactOn(a, b, d) ==
    /\ d = EmptyDict => a = b
    /\ a.k # b.k => d = Box(a, b)

\* C20. Primitive comparison is exact: the diff of two primitives, as the two
\* arguments or under a common key of two mappings, is empty only when they
\* are of the same primitive kind and have the same value; primitives of
\* different kinds (true against 1, 1 against "1", null against false or 0)
\* always give the modification box carrying old and new.
C20_ExactPrimitives ==
    Done =>
        LET a == processed_actual
            b == processed_predicted
        IN /\ (IsPrimitive(a) /\ IsPrimitive(b)) => ExactOn(a, b, result.jsonDiff)
           /\ BothDicts =>
                 \A k \in DOMAIN a.v \cap DOMAIN b.v :
                     (IsPrimitive(a.v[k]) /\ IsPrimitive(b.v[k]) /\ a.v[k].k # b.v[k].k) =>
                         /\ IsDict(result.jsonDiff)
                         /\ k \in DOMAIN result.jsonDiff.v
                         /\ result.jsonDiff.v[k] = Box(a.v[k], b.v[k])

\* Away from a boolean standing against a number the comparison of the two
\* arguments is exact.
Primitives_ExactButBoolNum ==
    Done =>
        LET a == processed_actual
            b == processed_predicted
        IN (IsPrimitive(a) /\ IsPrimitive(b) /\ {a.k, b.k} # {"bool", "num"}) =>
               ExactOn(a, b, result.jsonDiff)

\* the empty mapping or the empty list
IsEmptyNode(d) == d = EmptyDict \/ d = EmptyList

\* in the compact diff d every child diff, nested under a key without the
\* suffix "__added" or "__deleted" or standing in a list entry tagged "~",
\* is not empty; added, deleted, old and new values are carried, not diffs
RECURSIVE CompactChildrenNonEmpty(_)
CompactChildrenNonEmpty(d) ==
    CASE IsDict(d) /\ IsBox(d) -> TRUE
      [] IsDict(d) /\ ~IsBox(d) ->
            \A key \in DOMAIN d.v :
                IsTagged(key) \/
                    (~IsEmptyNode(d.v[key]) /\ CompactChildrenNonEmpty(d.v[key]))
      [] IsList(d) ->
            \A i \in 1..Len(d.v) :
                LET entry == d.v[i]
                IN (IsList(entry) /\ Len(entry.v) = 2 /\ entry.v[1] = JStr(S_tilde)) =>
                       (~IsEmptyNode(entry.v[2]) /\ CompactChildrenNonEmpty(entry.v[2]))
      [] OTHER -> TRUE

\* in the full diff d every child diff, the "diff" of a node or list entry
\* with the operation "~", is not empty
RECURSIVE FullChildrenNonEmpty(_)
FullChildrenNonEmpty(d) ==
    LET NodeOk(n) ==
            (IsDict(n) /\ S_diff \in DOMAIN n.v) =>
                (~IsEmptyNode(n.v[S_diff]) /\ FullChildrenNonEmpty(n.v[S_diff]))
    IN CASE IsDict(d) /\ S_op2 \in DOMAIN d.v -> TRUE
         [] IsDict(d) /\ S_op2 \notin DOMAIN d.v -> \A key \in DOMAIN d.v : NodeOk(d.v[key])
         [] IsList(d) -> \A i \in 1..Len(d.v) : NodeOk(d.v[i])
         [] OTHER -> TRUE

\* C21. No empty child nodes: in the compact and in the full diff of every
\* call, a child diff nested under an unsuffixed mapping key or inside a list
\* entry tagged "~" is never empty; a key or index whose recursive diff is
\* empty is left out, so an empty node occurs only as the whole result.
C21_NoEmptyChild ==
    pc \in {"check", "done"} =>
        /\ CompactChildrenNonEmpty(diff_result)
        /\ FullChildrenNonEmpty(full_diff)

\* a call on [{"a": 1}] and [{"a": 1}, 1] has returned: index 0 has an empty
\* diff and is left out, index 1 is an addition
C21_Witness ==
    /\ Done
    /\ actual = JList(<<Rec1>>)
    /\ predicted = JList(<<Rec1, V_one>>)
    /\ result.jsonDiff = JList(<<JList(<<JStr(S_plus), V_one>>)>>)
    /\ Len(result.fullJsonDiff.v) = 1

---------------------------------------------------------------------------
(* run_benchmark (src/ocr_benchmark/__init__.py) *)

\* MODEL_CONCURRENCY, as the set of its (model name, limit) entries:
\* "aws-textract": 50, "azure-document-intelligence": 50, "claude-3-5-sonnet-20241022": 10, "gemini-2.0-flash-001": 30, "mistral-ocr": 5, "gpt-4o": 50, "qwen2.5-vl-32b-instruct": 10, "qwen2.5-vl-72b-instruct": 10, "google/gemma-3-27b-it": 10, "meta-llama/Llama-3.2-11B-Vision-Instruct-Turbo": 10, "meta-llama/Llama-3.2-90B-Vision-Instruct-Turbo": 10, "omniai": 30, "zerox": 50
MODEL_CONCURRENCY ==
    {<<<<97, 119, 115, 45, 116, 101, 120, 116, 114, 97, 99, 116>>, 50>>,
     <<<<97, 122, 117, 114, 101, 45, 100, 111, 99, 117, 109, 101, 110, 116, 45, 105, 110, 116, 101, 108, 108, 105, 103, 101, 110, 99, 101>>, 50>>,
     <<<<99, 108, 97, 117, 100, 101, 45, 51, 45, 53, 45, 115, 111, 110, 110, 101, 116, 45, 50, 48, 50, 52, 49, 48, 50, 50>>, 10>>,
     <<<<103, 101, 109, 105, 110, 105, 45, 50, 46, 48, 45, 102, 108, 97, 115, 104, 45, 48, 48, 49>>, 30>>,
     <<<<109, 105, 115, 116, 114, 97, 108, 45, 111, 99, 114>>, 5>>,
     <<<<103, 112, 116, 45, 52, 111>>, 50>>,
     <<<<113, 119, 101, 110, 50, 46, 53, 45, 118, 108, 45, 51, 50, 98, 45, 105, 110, 115, 116, 114, 117, 99, 116>>, 10>>,
     <<<<113, 119, 101, 110, 50, 46, 53, 45, 118, 108, 45, 55, 50, 98, 45, 105, 110, 115, 116, 114, 117, 99, 116>>, 10>>,
     <<<<103, 111, 111, 103, 108, 101, 47, 103, 101, 109, 109, 97, 45, 51, 45, 50, 55, 98, 45, 105, 116>>, 10>>,
     <<<<109, 101, 116, 97, 45, 108, 108, 97, 109, 97, 47, 76, 108, 97, 109, 97, 45, 51, 46, 50, 45, 49, 49, 66, 45, 86, 105, 115, 105, 111, 110, 45, 73, 110, 115, 116, 114, 117, 99, 116, 45, 84, 117, 114, 98, 111>>, 10>>,
     <<<<109, 101, 116, 97, 45, 108, 108, 97, 109, 97, 47, 76, 108, 97, 109, 97, 45, 51, 46, 50, 45, 57, 48, 66, 45, 86, 105, 115, 105, 111, 110, 45, 73, 110, 115, 116, 114, 117, 99, 116, 45, 84, 117, 114, 98, 111>>, 10>>,
     <<<<111, 109, 110, 105, 97, 105>>, 30>>,
     <<<<122, 101, 114, 111, 120>>, 50>>}

S_mistral_ocr == <<109, 105, 115, 116, 114, 97, 108, 45, 111, 99, 114>>   \* "mistral-ocr"
S_gpt_4o == <<103, 112, 116, 45, 52, 111>>   \* "gpt-4o"
S_gemini_flash == <<103, 101, 109, 105, 110, 105, 45, 50, 46, 48, 45, 102, 108, 97, 115, 104, 45, 48, 48, 49>>   \* "gemini-2.0-flash-001"
S_None == <<78, 111, 110, 101>>   \* str(None)
S_img2json == <<32, 40, 73, 77, 71, 50, 74, 83, 79, 78, 41>>   \* " (IMG2JSON)"
S_arrow == <<32, 45, 62, 32>>   \* " -> "
S_dash == <<45>>   \* "-"
\* "Extraction provider not available for direct image extraction"
S_not_available ==
    <<69, 120, 116, 114, 97, 99, 116, 105, 111, 110, 32, 112, 114, 111, 118, 105, 100, 101, 114, 32, 110, 111, 116, 32, 97, 118, 97, 105, 108, 97, 98, 108, 101, 32, 102, 111, 114, 32, 100, 105, 114, 101, 99, 116, 32, 105, 109, 97, 103, 101, 32, 101, 120, 116, 114, 97, 99, 116, 105, 111, 110>>
S_error == <<101, 114, 114, 111, 114>>   \* the text of an exception that a provider raises

\* MODEL_CONCURRENCY.get(model, 20)
Limit(model) ==
    IF model.given /\ \E e \in MODEL_CONCURRENCY : e[1] = model.s
    THEN (CHOOSE e \in MODEL_CONCURRENCY : e[1] = model.s)[2]
    ELSE 20

\* a model configuration of models.yaml; NoName is an absent model
Config(ocr, extraction, direct) ==
    [ocr |-> ocr, extraction |-> extraction, directImageExtraction |-> direct]

\* Concurrency taking the larger of the two limits
ConcurrencyMax(m) ==
    LET ocr == Limit(m.ocr)
        extraction == IF m.extraction.given /\ m.extraction.s # <<>>
                      THEN Limit(m.extraction) ELSE 20
    IN IF ocr >= extraction THEN ocr ELSE extraction

\* lines 160-163: the concurrency of the configuration m
Concurrency(m) ==
    LET ocr == Limit(m.ocr)
        extraction == IF m.extraction.given /\ m.extraction.s # <<>>
                      THEN Limit(m.extraction) ELSE 20
    IN IF ocr <= extraction THEN ocr ELSE extraction

\* lines 166-177: get_model_provider inside try/except, an exception
\* leaving None
ProviderOf(model, cl) ==
    LET r == get_model_provider(model, cl.gemini, cl.openai)
    IN IF r \in {"RuntimeError", "NotImplementedError"} THEN "None" ELSE r

\* f"{x}" of a model name or None
Str(model) == IF model.given THEN model.s ELSE S_None

\* lines 147-151: the key under which the bar of m is created
BarKeyCreated(m) ==
    IF m.directImageExtraction
    THEN Str(m.extraction) \o S_img2json
    ELSE Str(m.ocr) \o S_arrow \o Str(m.extraction)

\* lines 295-299: the key under which process_item looks the bar up
BarKeyUpdated(m) ==
    IF m.directImageExtraction
    THEN Str(m.extraction) \o S_img2json
    ELSE Str(m.ocr) \o S_dash \o Str(m.extraction)

\* lines 300-305: pbar = progress_bars.get(key); if pbar: pbar.update(1);
\* a tqdm bar is true when its total is positive
Advance(bars, key) ==
    IF key \in DOMAIN bars /\ bars[key].total > 0
    THEN [bars EXCEPT ![key].n = @ + 1]
    ELSE bars

\* The package ocr_benchmark.evaluation holds json.py and no __init__.py, so
\* it exports no name: "from .evaluation import calculate_json_accuracy"
\* (line 56) raises ImportError and the fallback of lines 59-65 is bound.
EvaluationExports == {}

\* the dict that calculate_json_accuracy of evaluation/json.py returns, as
\* the JSON values that process_item reads with .get
AccuracyResult(r) ==
    [score |-> JNum(r.score), jsonDiff |-> r.jsonDiff,
     fullJsonDiff |-> r.fullJsonDiff, jsonDiffStats |-> JDict(r.jsonDiffStats)]

\* calculate_json_accuracy as ocr_benchmark/__init__.py binds it (lines 55-65)
BoundAccuracy(true_json, predicted_json) ==
    IF "calculate_json_accuracy" \in EvaluationExports
    THEN AccuracyResult(Alone(true_json, predicted_json, FALSE))
    ELSE [score |-> JNull, jsonDiff |-> JNull, fullJsonDiff |-> JNull,
          jsonDiffStats |-> JNull]

\* lines 181-199: the result that process_item starts from (the fields
\* metadata, jsonSchema, the markdown fields, usage and jsonAccuracyResult
\* are copies that nothing reads and are left out)
NewRecord(m, item) ==
    [fileUrl |-> item.imageUrl,
     ocrModel |-> m.ocr,
     extractionModel |-> m.extraction,
     directImageExtraction |-> m.directImageExtraction,
     trueJson |-> item.trueJsonOutput,
     predictedJson |-> JNull,
     jsonAccuracy |-> JNull,
     jsonDiff |-> JNull,
     fullJsonDiff |-> JNull,
     jsonDiffStats |-> JNull,
     error |-> JNull]

\* lines 276-285: the fields of json_accuracy_result are copied to the result
WithAccuracy(rec, json_accuracy_result) ==
    [rec EXCEPT !.jsonAccuracy = json_accuracy_result.score,
                !.jsonDiff = json_accuracy_result.jsonDiff,
                !.fullJsonDiff = json_accuracy_result.fullJsonDiff,
                !.jsonDiffStats = json_accuracy_result.jsonDiffStats]

\* lines 272-285
Scored(rec, item) ==
    IF Truthy(rec.predictedJson)
    THEN WithAccuracy(rec, BoundAccuracy(item.trueJsonOutput, rec.predictedJson))
    ELSE rec

\* lines 287-288: result["error"] = str(e)
Failed(rec, text) == [rec EXCEPT !.error = JStr(text)]

\* str(e) of what an awaited provider call can raise: asyncio.wait_for
\* raises TimeoutError(), whose text is empty; a provider raises with a text
ErrorTexts == {<<>>, S_error}

\* lines 201-292: the records that the body of process_item can end with
\* for item under the configuration m with the providers prov; an awaited
\* provider call returns, raises or times out
ProcessItem(m, prov, item) ==
    LET new == NewRecord(m, item)
        failures == {Failed(new, t) : t \in ErrorTexts}
        extracted == Scored([new EXCEPT !.predictedJson = item.extractable], item)
    IN IF m.directImageExtraction
       THEN IF prov.extraction = "None"
            THEN {Failed(new, S_not_available)}
            ELSE failures \cup {extracted}
       ELSE LET ocr_awaited == m.ocr # Name(S_ground_truth) /\ prov.ocr # "None"
            IN (IF ocr_awaited THEN failures ELSE {})
                 \cup (IF prov.extraction # "None"
                       THEN failures \cup {extracted}
                       ELSE {Scored(new, item)})

\* "async with sem" of process_item(item) under configuration m is entered
Acquire(m, i) ==
    /\ run = "gather"
    /\ tasks[<<m, i>>].st = "waiting"
    /\ sem[m] > 0
    /\ sem' = [sem EXCEPT ![m] = @ - 1]
    /\ tasks' = [tasks EXCEPT ![<<m, i>>].st = "inside"]
    /\ UNCHANGED <<MODELS, data, clients, providers, progress_bars, results,
                   gathered, written, run>>
    /\ UNCHANGED <<actual, predicted, ignore_cases, pc, processed_actual,
                   processed_predicted, full_diff, diff_result, total_fields,
                   result>>
    /\ UNCHANGED lookup_vars

\* lines 181-307: the body of process_item ends, the bar is updated, the
\* semaphore is released and the result is returned
Finish(m, i) ==
    /\ run = "gather"
    /\ tasks[<<m, i>>].st = "inside"
    /\ \E rec \in ProcessItem(MODELS[m], providers[m], data[i]) :
          tasks' = [tasks EXCEPT ![<<m, i>>] = [st |-> "returned", result |-> rec]]
    /\ progress_bars' = Advance(progress_bars, BarKeyUpdated(MODELS[m]))
    /\ sem' = [sem EXCEPT ![m] = @ + 1]
    /\ UNCHANGED <<MODELS, data, clients, providers, results, gathered,
                   written, run>>
    /\ UNCHANGED <<actual, predicted, ignore_cases, pc, processed_actual,
                   processed_predicted, full_diff, diff_result, total_fields,
                   result>>
    /\ UNCHANGED lookup_vars

\* lines 311-312: the gather of configuration m returns and its results are
\* appended, in the order of the items
Gather(m) ==
    /\ run = "gather"
    /\ m \notin gathered
    /\ \A i \in 1..Len(data) : tasks[<<m, i>>].st = "returned"
    /\ results' = results \o [i \in 1..Len(data) |-> tasks[<<m, i>>].result]
    /\ gathered' = gathered \cup {m}
    /\ UNCHANGED <<MODELS, data, clients, sem, providers, tasks,
                   progress_bars, written, run>>
    /\ UNCHANGED <<actual, predicted, ignore_cases, pc, processed_actual,
                   processed_predicted, full_diff, diff_result, total_fields,
                   result>>
    /\ UNCHANGED lookup_vars

\* WriteResults not waiting for the gather of the configurations
WriteResultsEarly ==
    /\ run = "gather"
    /\ progress_bars' = [key \in DOMAIN progress_bars |->
                            [progress_bars[key] EXCEPT !.closed = TRUE]]
    /\ written' = Append(written, results)
    /\ run' = "done"
    /\ UNCHANGED <<MODELS, data, clients, sem, providers, tasks, results,
                   gathered>>
    /\ UNCHANGED <<actual, predicted, ignore_cases, pc, processed_actual,
                   processed_predicted, full_diff, diff_result, total_fields,
                   result>>
    /\ UNCHANGED lookup_vars

\* lines 315-324: the gather of all configurations returns, the bars are
\* closed and results.json is written
WriteResults ==
    /\ run = "gather"
    /\ gathered = 1..Len(MODELS)
    /\ progress_bars' = [key \in DOMAIN progress_bars |->
                            [progress_bars[key] EXCEPT !.closed = TRUE]]
    /\ written' = Append(written, results)
    /\ run' = "done"
    /\ UNCHANGED <<MODELS, data, clients, sem, providers, tasks, results,
                   gathered>>
    /\ UNCHANGED <<actual, predicted, ignore_cases, pc, processed_actual,
                   processed_predicted, full_diff, diff_result, total_fields,
                   result>>
    /\ UNCHANGED lookup_vars

BenchNext ==
    \/ \E m \in 1..Len(MODELS), i \in 1..Len(data) : Acquire(m, i)
    \/ \E m \in 1..Len(MODELS), i \in 1..Len(data) : Finish(m, i)
    \/ \E m \in 1..Len(MODELS) : Gather(m)
    \/ WriteResults

MaxTasks == 6   \* a run has at most MaxTasks item tasks, len(MODELS) * len(data)

\* the configurations that are run
GroundTruthThenGpt == Config(Name(S_ground_truth), Name(S_gpt_4o), FALSE)
MistralThenGpt == Config(Name(S_mistral_ocr), Name(S_gpt_4o), FALSE)
MistralThenGemini == Config(Name(S_mistral_ocr), Name(S_gemini_flash), FALSE)
MistralOnly == Config(Name(S_mistral_ocr), NoName, FALSE)
GptDirect == Config(NoName, Name(S_gpt_4o), TRUE)

\* the contents of models.yaml that are run
ModelFiles ==
    {<<>>, <<GroundTruthThenGpt>>, <<MistralThenGpt>>, <<MistralOnly>>,
     <<GptDirect>>, <<MistralThenGpt, MistralThenGemini>>,
     <<GroundTruthThenGpt, GptDirect>>, <<GptDirect, GptDirect>>}

\* the data items, in a cycle: trueJsonOutput and the JSON that a
\* successful extraction of the item's image yields
ItemKinds ==
    <<[trueJsonOutput |-> Rec1, extractable |-> Rec1],
      [trueJsonOutput |-> Rec1, extractable |-> Rec2],
      [trueJsonOutput |-> Rec1, extractable |-> EmptyDict],
      [trueJsonOutput |-> Rec1, extractable |-> JNull]>>

\* load_local_data returning n items
DataOf(n) ==
    [i \in 1..n |->
        LET kind == ItemKinds[((i - 1) % Len(ItemKinds)) + 1]
        IN [imageUrl |-> i, trueJsonOutput |-> kind.trueJsonOutput,
            extractable |-> kind.extractable]]

\* the environments of a run: the clients of both vendors are configured,
\* or of neither
Environments == {[gemini |-> ok, openai |-> ok] : ok \in BOOLEAN}

\* no call of calculate_json_accuracy is observed
NoCall ==
    /\ actual = JNull
    /\ predicted = JNull
    /\ ignore_cases = FALSE
    /\ pc = "idle"
    /\ processed_actual = JNull
    /\ processed_predicted = JNull
    /\ full_diff = JNull
    /\ diff_result = JNull
    /\ total_fields = 0
    /\ result = NoResult

\* run_benchmark at its "await asyncio.gather" of line 315: the bars are
\* created (lines 145-152), and each process_with_model has made its
\* semaphore and providers and launched its item tasks (lines 155-310)
BenchInit ==
    /\ MODELS \in ModelFiles
    /\ \E n \in 0..MaxTasks : Len(MODELS) * n <= MaxTasks /\ data = DataOf(n)
    /\ clients \in Environments
    /\ sem = [m \in 1..Len(MODELS) |-> Concurrency(MODELS[m])]
    /\ providers = [m \in 1..Len(MODELS) |->
                      [ocr |-> ProviderOf(MODELS[m].ocr, clients),
                       extraction |-> ProviderOf(MODELS[m].extraction, clients)]]
    /\ tasks = [t \in (1..Len(MODELS)) \X (1..Len(data)) |->
                  [st |-> "waiting", result |-> NewRecord(MODELS[t[1]], data[t[2]])]]
    /\ progress_bars = [key \in {BarKeyCreated(MODELS[m]) : m \in 1..Len(MODELS)} |->
                          [total |-> Len(data), n |-> 0, closed |-> FALSE]]
    /\ results = <<>>
    /\ gathered = {}
    /\ written = <<>>
    /\ run = "gather"
    /\ NoCall
    /\ NoLookup

BenchSpec == BenchInit /\ [][BenchNext]_vars

\* Every awaited provider call ends, at the latest by the timeout of
\* with_timeout (TIMEOUT_SECONDS, lines 38 and 122-127), and the event loop
\* runs every task that can run: a step that is possible is taken.
BenchLiveSpec == BenchInit /\ [][BenchNext]_vars /\ WF_vars(BenchNext)

---------------------------------------------------------------------------
(* Claims about run_benchmark *)

Running == run \in {"gather", "done"}

\* the items that are inside the guarded section of process_item under the
\* configuration m
Inside(m) == {i \in 1..Len(data) : tasks[<<m, i>>].st = "inside"}

\* C22. Per-configuration concurrency limit: during run_benchmark, for each
\* model configuration the number of items inside the guarded section of
\* process_item at the same time never exceeds the smaller of the
\* MODEL_CONCURRENCY limits of its OCR model and of its extraction model,
\* where a model missing from the table or an absent extraction model
\* counts as 20.
C22_ConfigLimit ==
    Running =>
        \A m \in 1..Len(MODELS) :
            Cardinality(Inside(m)) <=
                Min(Limit(MODELS[m].ocr), Limit(MODELS[m].extraction))

\* under "mistral-ocr" then "gpt-4o" five of six items are inside the
\* section and the sixth waits for the semaphore
C22_Witness ==
    /\ run = "gather"
    /\ MODELS = <<MistralThenGpt>>
    /\ Len(data) = 6
    /\ Cardinality(Inside(1)) = 5
    /\ sem[1] = 0
    /\ \E i \in 1..Len(data) : tasks[<<1, i>>].st = "waiting"

\* the configurations of the run that use the model named s, as OCR model
\* or as extraction model
ConfigsUsing(s) ==
    {m \in 1..Len(MODELS) : MODELS[m].ocr = Name(s) \/ MODELS[m].extraction = Name(s)}

\* the items that are being processed with the model named s, summed over
\* the configurations that use it
ProcessedWith(s) ==
    SumOver([m \in 1..Len(MODELS) |-> Cardinality(Inside(m))], ConfigsUsing(s))

EachConfig_ModelLimit ==
    Running =>
        \A e \in MODEL_CONCURRENCY :
            \A m \in ConfigsUsing(e[1]) : Cardinality(Inside(m)) <= e[2]

\* the bar that run_benchmark created for the configuration m
BarOf(m) == progress_bars[BarKeyCreated(MODELS[m])]

\* the tasks of configuration m that have finished their item
Finished(m) == {i \in 1..Len(data) : tasks[<<m, i>>].st = "returned"}

\* C24. Progress reporting: each time process_item finishes an item, with a
\* result or with a recorded error, the progress bar created for the
\* configuration of that item is advanced by exactly one, for direct-image
\* and for OCR-then-extraction configurations alike, so every bar has been
\* advanced len(data) times when run_benchmark closes it (a bar that several
\* configurations share under one key once for each of them).
C24_Progress ==
    Running =>
        \A m \in 1..Len(MODELS) :
            /\ BarOf(m).n = SumOver([j \in 1..Len(MODELS) |-> Cardinality(Finished(j))],
                                    {j \in 1..Len(MODELS) :
                                        BarKeyCreated(MODELS[j]) = BarKeyCreated(MODELS[m])})
            /\ BarOf(m).closed => BarOf(m).n >= Len(data)

\* The bar of a direct-image configuration, when no other configuration has
\* the same key, is advanced once for each finished item.
Direct_Progress ==
    Running =>
        \A m \in 1..Len(MODELS) :
            (/\ MODELS[m].directImageExtraction
             /\ \A j \in 1..Len(MODELS) :
                    BarKeyCreated(MODELS[j]) = BarKeyCreated(MODELS[m]) => j = m) =>
                /\ BarOf(m).n = Cardinality(Finished(m))
                /\ BarOf(m).closed => BarOf(m).n = Len(data)

\* a and b are lists of mappings of the same length
RecordLists(a, b) ==
    IsList(a) /\ IsList(b) /\ Len(a.v) = Len(b.v) /\ AllDicts(a) /\ AllDicts(b)

\* an exhaustive search finds a bijection between the elements of a and of b
\* in which every pair has an empty compact diff
PerfectMatching(a, b) ==
    \E p \in Permutations(1..Len(a.v)) :
        \A i \in 1..Len(a.v) : IsEmptyDict(DiffJson(a.v[i], b.v[p[i]], FALSE))

\* C25. Greedy matching is complete: for two lists of mappings of equal
\* length, as the two arguments or under a common key, the first-fit match
\* reports no difference exactly when some bijection between the elements of
\* a and of b exists in which every pair has an empty compact diff.
C25_GreedyComplete ==
    Done =>
        LET a == processed_actual
            b == processed_predicted
        IN /\ RecordLists(a, b) =>
                 /\ diff_result = EmptyList <=> PerfectMatching(a, b)
                 /\ result.jsonDiff = EmptyDict <=> PerfectMatching(a, b)
           /\ BothDicts =>
                 \A k \in DOMAIN a.v \cap DOMAIN b.v :
                     RecordLists(a.v[k], b.v[k]) =>
                         (k \notin DOMAIN diff_result.v <=> PerfectMatching(a.v[k], b.v[k]))

\* a call on [{"a": 1}, {"a": "a"}] and [{"a": "a"}, {"a": 1}] has returned
\* without a difference: the first candidate did not fit the first element
C25_Witness ==
    /\ Done
    /\ actual = JList(<<Rec1, Rec2>>)
    /\ predicted = JList(<<Rec2, Rec1>>)
    /\ ~IsEmptyDict(DiffJson(actual.v[1], predicted.v[1], FALSE))
    /\ diff_result = EmptyList
    /\ result.jsonDiff = EmptyDict

\* C26. A reported difference is always counted: whenever the returned
\* jsonDiff is not empty, jsonDiffStats.total is at least 1, so the score 1.0
\* is returned only together with an empty jsonDiff.
C26_DifferenceCounted ==
    Done =>
        /\ ~IsEmptyNode(result.jsonDiff) => result.jsonDiffStats.total >= 1
        /\ result.score = ScoreUnit => result.jsonDiff = EmptyDict

\* a value is an empty mapping or list, or holds one in a list or under a key
RECURSIVE HoldsEmptyContainer(_)
HoldsEmptyContainer(x) ==
    CASE IsList(x) -> x.v = <<>> \/ \E i \in 1..Len(x.v) : HoldsEmptyContainer(x.v[i])
      [] IsDict(x) -> DOMAIN x.v = {} \/ \E key \in DOMAIN x.v : HoldsEmptyContainer(x.v[key])
      [] OTHER -> FALSE

\* Every difference is counted when the keys of both arguments are free of
\* "__" and neither argument holds an empty mapping or list.
NoEmptyContainer_DifferenceCounted ==
    (PlainCall /\ ~HoldsEmptyContainer(actual) /\ ~HoldsEmptyContainer(predicted)) =>
        C26_DifferenceCounted

\* what the call with the two arguments exchanged returns
Swapped == Alone(predicted, actual, ignore_cases)

\* C27. Additions and deletions mirror each other: the additions counted by
\* calculate_json_accuracy(a, b) are the deletions counted by
\* calculate_json_accuracy(b, a), and the deletions of (a, b) are the
\* additions of (b, a).
C27_Mirror ==
    Done =>
        /\ result.jsonDiffStats.additions = Swapped.jsonDiffStats.deletions
        /\ result.jsonDiffStats.deletions = Swapped.jsonDiffStats.additions

\* Additions and deletions mirror each other when the keys of both
\* arguments are free of "__".
PlainKeys_Mirror == PlainCall => C27_Mirror

\* what the call on the same pair returns with ignore_cases = false
CaseExact == Alone(actual, predicted, FALSE)

\* C28. Ignoring case never lowers the score: the call with ignore_cases =
\* true returns the same totalFields, a jsonDiffStats.total that is not
\* greater and a score that is not lower than the call on the same pair
\* with ignore_cases = false.
C28_IgnoreCaseNotLower ==
    (Done /\ ignore_cases) =>
        /\ result.totalFields = CaseExact.totalFields
        /\ result.jsonDiffStats.total <= CaseExact.jsonDiffStats.total
        /\ result.score >= CaseExact.score

\* Ignoring case never lowers the score when the keys of both arguments are
\* free of "__".
PlainKeys_IgnoreCaseNotLower == PlainCall => C28_IgnoreCaseNotLower

\* the (configuration, item) pairs of the run
Pairs == DOMAIN tasks

AllReturned == \A t \in Pairs : tasks[t].st = "returned"

\* list holds exactly one record for each pair: as many records as pairs,
\* and each pair's record as often as there are pairs with that record
OneRecordEach(list) ==
    /\ Len(list) = Cardinality(Pairs)
    /\ \A t \in Pairs :
          Cardinality({j \in 1..Len(list) : list[j] = tasks[t].result}) =
              Cardinality({u \in Pairs : tasks[u].result = tasks[t].result})

\* the pairs whose processing raises in every run: a direct-image
\* configuration without an extraction provider (lines 203-206)
Raises(t) ==
    MODELS[t[1]].directImageExtraction /\ providers[t[1]].extraction = "None"

\* results.json is written at most once, only when every item task of every
\* configuration has returned, with one record for each pair; a pair that
\* has raised or timed out has its record with the error set
WrittenComplete ==
    /\ Len(written) <= 1
    /\ written # <<>> =>
          /\ run = "done"
          /\ AllReturned
          /\ OneRecordEach(written[1])
    /\ \A t \in Pairs :
          (tasks[t].st = "returned" /\ Raises(t)) =>
              tasks[t].result.error = JStr(S_not_available)

\* C29. Complete results at write time: run_benchmark writes results.json
\* exactly once, only after every item task of every model configuration has
\* finished, and the written list holds exactly one record for each (model
\* configuration, data item) pair; a pair whose processing raised or timed
\* out still has its record, with the error field set, and does not stop
\* the processing of any other pair.
C29_CompleteResults ==
    /\ [](Running => WrittenComplete)
    /\ <>(run = "done" /\ Len(written) = 1)

\* results.json is written with the record of a pair that timed out, the
\* record of a pair whose provider raised and the record of a pair that was
\* processed without an error
C29_Witness ==
    /\ run = "done"
    /\ Len(written) = 1
    /\ \E j \in 1..Len(written[1]) : written[1][j].error = JStr(<<>>)
    /\ \E j \in 1..Len(written[1]) : written[1][j].error = JStr(S_error)
    /\ \E j \in 1..Len(written[1]) : written[1][j].error = JNull

\* the records that process_item has returned
Records == {tasks[t].result : t \in {u \in Pairs : tasks[u].st = "returned"}}

\* jsonAccuracy, jsonDiff, fullJsonDiff and jsonDiffStats of r are all null
Unscored(r) ==
    /\ r.jsonAccuracy = JNull
    /\ r.jsonDiff = JNull
    /\ r.fullJsonDiff = JNull
    /\ r.jsonDiffStats = JNull

\* C30. Scoring of a record: in every record produced by process_item,
\* jsonAccuracy is non-null exactly when no error was recorded and the
\* extraction provider returned a non-empty (truthy) predictedJson, and it
\* then is the score of calculate_json_accuracy(trueJson, predictedJson); in
\* every other case, an empty predicted object included, jsonAccuracy,
\* jsonDiff, fullJsonDiff and jsonDiffStats all stay null.
C30_RecordScore ==
    Running =>
        \A r \in Records :
            IF r.error = JNull /\ Truthy(r.predictedJson)
            THEN r.jsonAccuracy = JNum(Alone(r.trueJson, r.predictedJson, FALSE).score)
            ELSE Unscored(r)

\* A record with an error or with a predictedJson that is not truthy has
\* jsonAccuracy, jsonDiff, fullJsonDiff and jsonDiffStats null.
NotScored_Null ==
    Running =>
        \A r \in Records :
            (r.error # JNull \/ ~Truthy(r.predictedJson)) => Unscored(r)

===========================================================================
